---- MODULE Spec2Model ----
(***************************************************************************)
(* Newsletter delivery pipeline of zero2prod: the idempotent publish       *)
(* handler (routes/admin/newsletters/post.rs), the idempotency store       *)
(* (idempotency/persistence.rs), the delivery worker                       *)
(* (issue_delivery_worker.rs) and the confirmation of subscribers          *)
(* (routes/subscriptions_confirm.rs), over a relational store with         *)
(* READ COMMITTED transactions.                                            *)
(*                                                                         *)
(* Nullable columns and Option values are sequences of length at most one: *)
(* <<>> is NULL / None and <<v>> is Some(v).                               *)
(***************************************************************************)
EXTENDS Integers, FiniteSets, Sequences, TLC

\* ---- bounds of the model ------------------------------------------------
NumRequests == 2
NumUsers == 2
NumKeys == 1
NumValidEmails == 1
NumContents == 2
NumWorkers == 2
MaxFaults == 1
NumClients == 2
NumPasswords == 2
NumSalts == 1
NumTokens == 3
MaxHeaders == 3

Requests == 1..NumRequests
Users == 1..NumUsers
Keys == 1..NumKeys
Contents == 1..NumContents
Workers == 1..NumWorkers
Clients == 1..NumClients
Passwords == 1..NumPasswords

\* The usernames a form can carry: 0 is a username no user has, u is the
\* username of user u.
Usernames == 0..NumUsers

\* The idempotency_key field of the form: 0 stands for the empty string,
\* 1..NumKeys for well-formed keys.
FormKeys == 0..NumKeys

\* IdempotencyKey::try_from: None for a malformed key.
try_from(s) == IF s \in Keys THEN <<s>> ELSE <<>>

\* Stored addresses: 0 stands for a stored address that no longer passes
\* validation, 1..NumValidEmails for well-formed addresses.
Emails == 0..NumValidEmails

\* SubscriberEmail::parse succeeds exactly when validate_email accepts.
validate_email(s) == s \in 1..NumValidEmails

\* ---- HTTP responses -----------------------------------------------------
HttpResponse(status, headers, body) ==
    [status |-> status, headers |-> headers, body |-> body]

see_other(location) == HttpResponse(303, << <<"location", location>> >>, "")

e500(error) == HttpResponse(500, <<>>, error)

e400(error) == HttpResponse(400, <<>>, error)

\* ---- the store at start -------------------------------------------------
\* The worker reads newsletter_issues and issue_delivery_queue; the rows it
\* finds there at start are its input: two issues.
LegacyIssues == {0, 1}

\* The rows issue_delivery_queue can hold at start: the key of the table is
\* (newsletter_issue_id, subscriber_email).
QueueRows ==
    {[newsletter_issue_id |-> i, subscriber_email |-> e] : i \in LegacyIssues, e \in Emails}

\* The queue at the start of the application: one row per stored address
\* for the first issue.
LegacyQueue == {row \in QueueRows : row.newsletter_issue_id = 0}

VARIABLES
    subscriptions,          \* table subscriptions: email -> status
    idempotency,            \* table idempotency: the committed rows
    newsletter_issues,      \* table newsletter_issues: the committed issue ids
    issue_delivery_queue,   \* table issue_delivery_queue: the committed rows
    pc,                     \* per request: position in publish_newsletter
    form,                   \* per request: user id of the session and the form
    transaction,            \* per request: None, or the row its open transaction holds
    next_action,            \* per request: branch obtained from try_processing
    subscribers,            \* per request: rows fetched by get_confirmed_subscribers
    todo,                   \* per request: fetched rows the loop has not reached yet
    response,               \* per request: None, or the response returned
    in_flight,              \* per request: the requests in flight when it arrived
    handler_calls,          \* mailer calls made by the handler, per (user, key, email)
    wpc,                    \* per worker: position in try_execute_task
    task,                   \* per worker: None, or the queue row it has locked
    outcome,                \* per worker: result of its last try_execute_task
    sent,                   \* per worker: result of the mailer call of its iteration
    worker_calls,           \* mailer calls made by workers, per (issue, email)
    completed,              \* the rows of iterations that returned TaskCompleted
    cut_offs,               \* per (issue, email): iterations cut off between the
                            \* mailer call and the commit of the delete
    faults,                 \* store errors and worker crashes so far
    initial_queue,          \* the rows of issue_delivery_queue at start
    users,                  \* table users: user_id -> username and password_hash
    session,                \* per client: None, or the user id its session holds
    change,                 \* per client: None, or the password change in progress
    answer,                 \* None, or the last response given outside the
                            \* steps of publish, with its client, route and
                            \* flash message
    basic,                  \* per client: None, or the rows its call of the
                            \* basic-auth publish variant fetched and has
                            \* not reached yet
    subscription_token,     \* table subscription_token: the committed rows
    subscribing,            \* per client: None, or the locals of its call of
                            \* subscribe
    confirmation_emails     \* the confirmation emails the mailer accepted,
                            \* as (address, token of the link)

vars == <<subscriptions, idempotency, newsletter_issues, issue_delivery_queue,
          pc, form, transaction, next_action, subscribers, todo, response,
          in_flight, handler_calls, wpc, task, outcome, sent, worker_calls,
          completed, cut_offs, faults, initial_queue, users, session, change, answer,
          basic, subscription_token, subscribing, confirmation_emails>>

subscribeVars == <<subscription_token, subscribing, confirmation_emails>>
adminVars == <<users, session, change, answer, basic, subscribeVars>>
store == <<idempotency, newsletter_issues, issue_delivery_queue>>
workerVars == <<wpc, task, outcome, sent, worker_calls, completed, cut_offs, faults,
                initial_queue>>
requestVars == <<pc, form, transaction, next_action, subscribers, todo, response, in_flight>>

Pairs == Users \X Keys

PairOf(r) == <<form[r].user_id, form[r].idempotency_key>>

\* ---- passwords (authentication/password.rs) -------------------------------

\* The salts SaltString::generate can draw.
Salts == 0..(NumSalts - 1)

\* compute_password_hash: the PHC string of a password, which carries the
\* salt and the digest of salt and password.
compute_password_hash(password, salt) == [salt |-> salt, digest |-> <<salt, password>>]

\* Argon2::verify_password: recompute the digest with the salt of the
\* expected hash and compare.
verify_password(password, expected_hash) ==
    expected_hash.digest = <<expected_hash.salt, password>>

\* The tokens generate_subscription_token can draw.
Tokens == 1..NumTokens

\* The token stored for an address that is in the table at start.
LegacyToken(e) == e + 1

\* The state at start over a given queue and given subscriptions; a status
\* "none" stands for an address without a row.
StartOver(queue, statuses) ==
    /\ subscriptions = statuses
    /\ idempotency = {}
    /\ newsletter_issues = LegacyIssues
    /\ issue_delivery_queue = queue
    /\ initial_queue = queue
    /\ pc = [r \in Requests |-> "idle"]
    /\ form = [r \in Requests |-> [user_id |-> 1, idempotency_key |-> 1, content |-> 1]]
    /\ transaction = [r \in Requests |-> <<>>]
    /\ next_action = [r \in Requests |-> "none"]
    /\ subscribers = [r \in Requests |-> {}]
    /\ todo = [r \in Requests |-> {}]
    /\ response = [r \in Requests |-> <<>>]
    /\ in_flight = [r \in Requests |-> {}]
    /\ handler_calls = [p \in Pairs \X Emails |-> 0]
    /\ wpc = [w \in Workers |-> "idle"]
    /\ task = [w \in Workers |-> <<>>]
    /\ outcome = [w \in Workers |-> "none"]
    /\ sent = [w \in Workers |-> "none"]
    /\ worker_calls = [p \in LegacyIssues \X Emails |-> 0]
    /\ completed = {}
    /\ cut_offs = [p \in LegacyIssues \X Emails |-> 0]
    /\ faults = 0
    /\ users = [u \in Users |->
                  [username |-> u, password_hash |-> compute_password_hash(1, 0)]]
    /\ session = [c \in Clients |-> <<>>]
    /\ change = [c \in Clients |-> <<>>]
    /\ answer = <<>>
    /\ basic = [c \in Clients |-> <<>>]
    /\ subscription_token = {[subscription_token |-> LegacyToken(e), subscriber_id |-> e] :
                                 e \in {e \in Emails : statuses[e] # "none"}}
    /\ subscribing = [c \in Clients |-> <<>>]
    /\ confirmation_emails = {}

\* The state at start over a given queue: no subscriber has confirmed yet.
StartWith(queue) == StartOver(queue, [e \in Emails |-> "pending_confirmation"])

Init == StartWith(LegacyQueue)

\* ---- idempotency store (idempotency/persistence.rs) ----------------------

\* `status as u16 as i16`: the status code narrowed to the column's 16 bits.
as_i16(n) == IF n % 65536 >= 32768 THEN (n % 65536) - 65536 ELSE n % 65536

\* The row INSERT INTO idempotency (user_id, idempotency_key, created_at)
\* writes: the three response columns are NULL.
placeholder(user_id, idempotency_key) ==
    [user_id |-> user_id, idempotency_key |-> idempotency_key,
     response_status_code |-> <<>>, response_headers |-> <<>>, response_body |-> <<>>]

\* WHERE user_id = $1 AND idempotency_key = $2 over a set of rows.
rows_for(rows, user_id, idempotency_key) ==
    {row \in rows : row.user_id = user_id /\ row.idempotency_key = idempotency_key}

\* Rows written by transactions that are still open.
uncommitted(r) == {transaction[q][1] : q \in {q \in Requests \ {r} : transaction[q] # <<>>}}

\* An INSERT that does not see the rows of open transactions and so never
\* waits for them.
insert_without_waiting(r, user_id, idempotency_key) == FALSE

\* ON CONFLICT DO NOTHING against a row another open transaction has
\* inserted waits for that transaction to end.
insert_waits(r, user_id, idempotency_key) ==
    rows_for(uncommitted(r), user_id, idempotency_key) # {}

\* An INSERT that reports a row even when the pair has one already.
n_inserted_rows_without_conflict(user_id, idempotency_key) == 1

\* rows_affected() of the INSERT ... ON CONFLICT DO NOTHING.
n_inserted_rows(user_id, idempotency_key) ==
    IF rows_for(idempotency, user_id, idempotency_key) = {} THEN 1 ELSE 0

\* The loop of save_response over `response_head.headers().iter()`: one
\* HeaderPairRecord per pair of name and value, in the order of the
\* iteration, which is the order of a response's list of headers.
header_records(headers) ==
    [i \in 1..Len(headers) |-> [name |-> headers[i][1], value |-> headers[i][2]]]

\* HttpResponseBuilder::insert_header: the pair replaces the values the
\* name has.
insert_header(headers, pair) ==
    Append(SelectSeq(headers, LAMBDA h : h[1] # pair[1]), pair)

\* HttpResponseBuilder::append_header: the pair is added after the values
\* the name has already.
append_header(headers, pair) ==
    IF \E i \in 1..Len(headers) : headers[i][1] = pair[1]
    THEN LET last == CHOOSE i \in 1..Len(headers) :
                         /\ headers[i][1] = pair[1]
                         /\ \A j \in (i + 1)..Len(headers) : headers[j][1] # pair[1]
         IN SubSeq(headers, 1, last) \o <<pair>> \o SubSeq(headers, last + 1, Len(headers))
    ELSE Append(headers, pair)

\* The loop of get_saved_response over the stored records.
RECURSIVE rebuilt_headers(_, _)
rebuilt_headers(headers, records) ==
    IF records = <<>>
    THEN headers
    ELSE rebuilt_headers(append_header(headers, <<Head(records).name, Head(records).value>>),
                         Tail(records))

\* An UPDATE that matches no row: the row is committed as it was inserted.
updated_row_matching_nothing(row, http_response) == row

\* UPDATE idempotency SET response_* of save_response, on the row the
\* transaction holds.
updated_row(row, http_response) ==
    [row EXCEPT !.response_status_code = <<as_i16(http_response.status)>>,
                !.response_headers = <<header_records(http_response.headers)>>,
                !.response_body = <<http_response.body>>]

\* get_saved_response that rebuilds the response without its headers.
saved_response_without_headers(row) ==
    IF row.response_status_code = <<>> \/ row.response_body = <<>>
    THEN [kind |-> "panic", response |-> <<>>]
    ELSE [kind |-> "ok",
          response |-> <<HttpResponse(row.response_status_code[1], <<>>, row.response_body[1])>>]

\* get_saved_response on a fetched row: "ok" with the rebuilt response,
\* "panic" when unwrap() meets a NULL column, "error" when the stored code
\* is no status code.
saved_response(row) ==
    IF row.response_status_code = <<>> \/ row.response_headers = <<>> \/ row.response_body = <<>>
    THEN [kind |-> "panic", response |-> <<>>]
    ELSE IF row.response_status_code[1] < 100 \/ row.response_status_code[1] > 999
    THEN [kind |-> "error", response |-> <<>>]
    ELSE [kind |-> "ok",
          response |-> <<HttpResponse(row.response_status_code[1],
                                      rebuilt_headers(<<>>, row.response_headers[1]),
                                      row.response_body[1])>>]

\* ---- publish_newsletter (routes/admin/newsletters/post.rs) ---------------

\* A handler that goes on with a key that did not parse.
after_try_into_ignoring_error(parsed) == "try_processing"

\* `idempotency_key.try_into().map_err(e400)?`: where the handler goes after
\* the conversion of the key.
after_try_into(parsed) == IF parsed = <<>> THEN "done" ELSE "try_processing"

\* A request with the user id of its session and a form reaches the handler,
\* and the handler converts the key of the form.
publish_newsletter(r, u) ==
    /\ \E k \in FormKeys, c \in Contents :
         /\ form' = [form EXCEPT ![r] = [user_id |-> u, idempotency_key |-> k, content |-> c]]
         /\ pc' = [pc EXCEPT ![r] = after_try_into(try_from(k))]
         /\ response' = [response EXCEPT
                ![r] = IF try_from(k) = <<>>
                       THEN <<e400("The idempotency key cannot be empty")>>
                       ELSE <<>>]
    /\ in_flight' = [in_flight EXCEPT ![r] = {q \in Requests : pc[q] \notin {"idle", "done"}}]
    /\ UNCHANGED <<adminVars, subscriptions, store, transaction, next_action, subscribers, todo,
                   handler_calls, workerVars>>

\* A request of a logged-in user arrives.
Submit(r) ==
    /\ pc[r] = "idle"
    /\ \A q \in Requests : q < r => pc[q] # "idle"
    /\ \E u \in Users : publish_newsletter(r, u)

\* try_processing: begin, INSERT ... ON CONFLICT DO NOTHING, branch on the
\* number of inserted rows.
try_processing(r) ==
    /\ pc[r] = "try_processing"
    /\ ~insert_waits(r, form[r].user_id, form[r].idempotency_key)
    /\ IF n_inserted_rows(form[r].user_id, form[r].idempotency_key) > 0
       THEN /\ transaction' = [transaction EXCEPT
                   ![r] = <<placeholder(form[r].user_id, form[r].idempotency_key)>>]
            /\ next_action' = [next_action EXCEPT ![r] = "StartProcessing"]
            /\ pc' = [pc EXCEPT ![r] = "get_confirmed_subscribers"]
       ELSE /\ pc' = [pc EXCEPT ![r] = "get_saved_response"]
            /\ UNCHANGED <<transaction, next_action>>
    /\ UNCHANGED <<adminVars, subscriptions, store, form, subscribers, todo, response,
                   in_flight, handler_calls, workerVars>>

\* The conflict branch of try_processing: get_saved_response reads the pool,
\* and the handler returns the saved response or the error as a 500.
get_saved_response(r) ==
    /\ pc[r] = "get_saved_response"
    /\ LET rows == rows_for(idempotency, form[r].user_id, form[r].idempotency_key)
       IN IF rows = {}
          THEN /\ response' = [response EXCEPT
                      ![r] = <<e500("We expected a saved response but didn't find it")>>]
               /\ next_action' = [next_action EXCEPT ![r] = "Err"]
          ELSE LET saved == saved_response(CHOOSE row \in rows : TRUE)
               IN IF saved.kind = "ok"
                  THEN /\ response' = [response EXCEPT ![r] = saved.response]
                       /\ next_action' = [next_action EXCEPT ![r] = "ReturnSavedResponse"]
                  ELSE /\ response' = [response EXCEPT
                              ![r] = IF saved.kind = "error"
                                     THEN <<e500("invalid status code")>>
                                     ELSE <<>>]
                       /\ next_action' = [next_action EXCEPT
                              ![r] = IF saved.kind = "error" THEN "Err" ELSE "panic"]
    /\ pc' = [pc EXCEPT ![r] = "done"]
    /\ UNCHANGED <<adminVars, subscriptions, store, form, transaction, subscribers, todo,
                   in_flight, handler_calls, workerVars>>

\* The query without its WHERE clause.
all_subscribers == Emails

\* SELECT email FROM subscriptions WHERE status = 'confirmed'.
confirmed_subscribers == {e \in Emails : subscriptions[e] = "confirmed"}

get_confirmed_subscribers(r) ==
    /\ pc[r] = "get_confirmed_subscribers"
    /\ subscribers' = [subscribers EXCEPT ![r] = confirmed_subscribers]
    /\ todo' = [todo EXCEPT ![r] = confirmed_subscribers]
    /\ pc' = [pc EXCEPT ![r] = IF confirmed_subscribers = {} THEN "save_response" ELSE "send_email"]
    /\ UNCHANGED <<adminVars, subscriptions, store, form, transaction, next_action, response,
                   in_flight, handler_calls, workerVars>>

\* A handler that saves the error it returns as the response of the pair.
rows_after_drop_saving_error(r) ==
    idempotency \cup {updated_row(transaction[r][1], e500("StoreError"))}

\* A handler whose INSERT ran on the pool: the row stays when the
\* transaction is dropped.
rows_after_drop_keeping_insert(r) == idempotency \cup {transaction[r][1]}

\* The handler returns by `?` while it holds the transaction of
\* try_processing: the transaction is dropped without a commit and the store
\* rolls it back, the inserted row with it.
rows_after_drop(r) == idempotency

\* One round of `for subscriber in subscribers`: an address that fails
\* validation is logged and skipped, a valid one gets a mailer call whose
\* failure ends the request with a 500 and drops the transaction.
send_email(r) ==
    /\ pc[r] = "send_email"
    /\ \E e \in todo[r] :
         IF ~validate_email(e)
         THEN /\ todo' = [todo EXCEPT ![r] = @ \ {e}]
              /\ pc' = [pc EXCEPT ![r] = IF todo[r] = {e} THEN "save_response" ELSE @]
              /\ UNCHANGED <<idempotency, handler_calls, response, transaction>>
         ELSE /\ handler_calls' = [handler_calls EXCEPT ![<<PairOf(r), e>>] = @ + 1]
              /\ \E delivered \in BOOLEAN :
                   IF delivered
                   THEN /\ todo' = [todo EXCEPT ![r] = @ \ {e}]
                        /\ pc' = [pc EXCEPT ![r] = IF todo[r] = {e} THEN "save_response" ELSE @]
                        /\ UNCHANGED <<idempotency, response, transaction>>
                   ELSE /\ response' = [response EXCEPT
                               ![r] = <<e500("Failed to send newsletter to " \o ToString(e))>>]
                        /\ idempotency' = rows_after_drop(r)
                        /\ transaction' = [transaction EXCEPT ![r] = <<>>]
                        /\ pc' = [pc EXCEPT ![r] = "done"]
                        /\ UNCHANGED todo
    /\ UNCHANGED <<adminVars, subscriptions, newsletter_issues, issue_delivery_queue, form,
                   next_action, subscribers, in_flight, workerVars>>

\* A save_response that returns the response without a commit.
rows_after_save_uncommitted(r, http_response) == idempotency

\* The committed rows after `transaction.execute(query)` and
\* `transaction.commit()` of save_response: the row the transaction inserted,
\* with the response in it.
rows_after_save(r, http_response) ==
    idempotency \cup {updated_row(transaction[r][1], http_response)}

\* save_response: UPDATE the row with the response, commit, return the
\* response.
save_response(r) ==
    /\ pc[r] = "save_response"
    /\ LET http_response == see_other("/admin/newsletters")
       IN /\ idempotency' = rows_after_save(r, http_response)
          /\ response' = [response EXCEPT ![r] = <<http_response>>]
    /\ transaction' = [transaction EXCEPT ![r] = <<>>]
    /\ pc' = [pc EXCEPT ![r] = "done"]
    /\ UNCHANGED <<adminVars, subscriptions, newsletter_issues, issue_delivery_queue, form,
                   next_action, subscribers, todo, in_flight, handler_calls, workerVars>>

\* try_processing when pool.begin(), the INSERT or the query of
\* get_saved_response fails: `.map_err(e500)?` answers 500, and no
\* transaction is left open.
try_processing_error(r) ==
    /\ pc[r] \in {"try_processing", "get_saved_response"}
    /\ faults < MaxFaults
    /\ faults' = faults + 1
    /\ response' = [response EXCEPT ![r] = <<e500("StoreError")>>]
    /\ next_action' = [next_action EXCEPT ![r] = "Err"]
    /\ pc' = [pc EXCEPT ![r] = "done"]
    /\ UNCHANGED <<adminVars, subscriptions, store, form, transaction, subscribers, todo, in_flight,
                   handler_calls, wpc, task, outcome, sent, worker_calls, completed,
                   cut_offs, initial_queue>>

\* get_confirmed_subscribers when the query fails: `.map_err(e500)?` answers
\* 500 and drops the transaction.
get_confirmed_subscribers_error(r) ==
    /\ pc[r] = "get_confirmed_subscribers"
    /\ faults < MaxFaults
    /\ faults' = faults + 1
    /\ response' = [response EXCEPT ![r] = <<e500("StoreError")>>]
    /\ idempotency' = rows_after_drop(r)
    /\ transaction' = [transaction EXCEPT ![r] = <<>>]
    /\ pc' = [pc EXCEPT ![r] = "done"]
    /\ UNCHANGED <<adminVars, subscriptions, newsletter_issues, issue_delivery_queue, form,
                   next_action, subscribers, todo, in_flight, handler_calls, wpc, task,
                   outcome, sent, worker_calls, completed, cut_offs, initial_queue>>

\* save_response when the UPDATE or the commit fails: `?` returns the error,
\* the handler answers 500 and the transaction is dropped uncommitted.
save_response_error(r) ==
    /\ pc[r] = "save_response"
    /\ faults < MaxFaults
    /\ faults' = faults + 1
    /\ response' = [response EXCEPT ![r] = <<e500("StoreError")>>]
    /\ idempotency' = rows_after_drop(r)
    /\ transaction' = [transaction EXCEPT ![r] = <<>>]
    /\ pc' = [pc EXCEPT ![r] = "done"]
    /\ UNCHANGED <<adminVars, subscriptions, newsletter_issues, issue_delivery_queue, form,
                   next_action, subscribers, todo, in_flight, handler_calls, wpc, task,
                   outcome, sent, worker_calls, completed, cut_offs, initial_queue>>

\* ---- confirm (routes/subscriptions_confirm.rs) ---------------------------

\* A confirm request that carries the token stored for the address e, in the
\* specifications that follow neither tokens nor the answers of confirm.
confirm(e) ==
    /\ subscriptions[e] = "pending_confirmation"
    /\ subscriptions' = [subscriptions EXCEPT ![e] = "confirmed"]
    /\ UNCHANGED <<adminVars, store, requestVars, handler_calls, workerVars>>

\* ---- delivery worker (issue_delivery_worker.rs) --------------------------

\* main spawns one worker task next to the application.
worker_task == 1

\* The key (newsletter_issue_id, subscriber_email) of a queue row.
Entry(row) == <<row.newsletter_issue_id, row.subscriber_email>>

\* The errors try_execute_task returns: sqlx's RowNotFound of fetch_one, and
\* any other error of the store.
IsErr(result) == result \in {"RowNotFound", "StoreError"}

\* Rows another worker's open transaction has locked FOR UPDATE.
locked(w) == {task[v][1] : v \in {v \in Workers \ {w} : task[v] # <<>>}}

\* The SELECT without SKIP LOCKED, were it to return at once.
claimable_ignoring_locks(w) == issue_delivery_queue

\* SELECT ... FOR UPDATE SKIP LOCKED LIMIT 1: the rows it may return.
claimable(w) == issue_delivery_queue \ locked(w)

\* try_execute_task that reports a finished task when there was none.
outcome_of_none_completed == "TaskCompleted"

\* `if task.is_none() { return Ok(ExecutionOutcome::EmptyQueue) }`.
outcome_of_none == "EmptyQueue"

\* dequeue_task at the top of try_execute_task: begin, select one unlocked
\* row and keep the transaction that locks it.
dequeue_task(w) ==
    /\ wpc[w] = "idle"
    /\ \/ /\ claimable(w) = {}
          /\ outcome' = [outcome EXCEPT ![w] = outcome_of_none]
          /\ wpc' = [wpc EXCEPT ![w] = "match"]
          /\ UNCHANGED task
       \/ \E row \in claimable(w) :
            /\ task' = [task EXCEPT ![w] = <<row>>]
            /\ wpc' = [wpc EXCEPT ![w] = "dequeued"]
            /\ outcome' = [outcome EXCEPT ![w] = "none"]
    /\ sent' = [sent EXCEPT ![w] = "none"]
    /\ UNCHANGED <<adminVars, subscriptions, store, requestVars, handler_calls, initial_queue, worker_calls,
                   completed, cut_offs, faults>>

\* dequeue_task when pool.begin() or the SELECT fails: `?` returns the error
\* and no row is locked.
dequeue_task_error(w) ==
    /\ wpc[w] = "idle"
    /\ faults < MaxFaults
    /\ faults' = faults + 1
    /\ outcome' = [outcome EXCEPT ![w] = "StoreError"]
    /\ wpc' = [wpc EXCEPT ![w] = "match"]
    /\ sent' = [sent EXCEPT ![w] = "none"]
    /\ UNCHANGED <<adminVars, subscriptions, store, requestVars, handler_calls, initial_queue, task, worker_calls,
                   completed, cut_offs>>

\* The queue after a transaction that deleted `row` is dropped, had the
\* DELETE run on the pool instead of the transaction.
after_rollback_of_pool_delete(row) == issue_delivery_queue \ {row}

\* The queue after a transaction that deleted `row` is dropped without a
\* commit: the store rolls the transaction back.
after_rollback(row) == issue_delivery_queue

\* try_execute_task returns `error` by `?` while it holds the transaction:
\* the transaction is dropped and the lock on its row released.
rollback(w, error) ==
    /\ issue_delivery_queue' = after_rollback(task[w][1])
    /\ task' = [task EXCEPT ![w] = <<>>]
    /\ outcome' = [outcome EXCEPT ![w] = error]
    /\ wpc' = [wpc EXCEPT ![w] = "match"]
    /\ cut_offs' = [cut_offs EXCEPT ![Entry(task[w][1])] = IF sent[w] # "none" THEN @ + 1 ELSE @]

\* get_issue that looks the issue up under another id.
issue_found_by_other_id(issue_id) == (issue_id - 1) \in newsletter_issues

\* WHERE newsletter_issue_id = $1 with fetch_one: whether a row is found.
issue_found(issue_id) == issue_id \in newsletter_issues

\* A worker that returns the error of SubscriberEmail::parse.
after_parse_error_returning_error == "match"

\* The arm `Err(e) => { tracing::error!(..) }` of the match on
\* SubscriberEmail::parse: where the iteration goes after it.
after_parse_error == "delete_task"

\* SubscriberEmail::parse of the claimed row, then get_issue for a valid
\* address: fetch_one returns RowNotFound when the issue is missing.
get_issue(w) ==
    /\ wpc[w] = "dequeued"
    /\ IF ~validate_email(task[w][1].subscriber_email)
       THEN IF after_parse_error = "delete_task"
            THEN /\ wpc' = [wpc EXCEPT ![w] = "delete_task"]
                 /\ UNCHANGED <<issue_delivery_queue, task, outcome, cut_offs>>
            ELSE rollback(w, "StoreError")
       ELSE IF issue_found(task[w][1].newsletter_issue_id)
       THEN /\ wpc' = [wpc EXCEPT ![w] = "send_email"]
            /\ UNCHANGED <<issue_delivery_queue, task, outcome, cut_offs>>
       ELSE rollback(w, "RowNotFound")
    /\ UNCHANGED <<adminVars, subscriptions, idempotency, newsletter_issues, requestVars,
                   handler_calls, initial_queue, sent, worker_calls, completed, faults>>

\* get_issue when the store fails: `?` returns the error.
get_issue_error(w) ==
    /\ wpc[w] = "dequeued"
    /\ validate_email(task[w][1].subscriber_email)
    /\ faults < MaxFaults
    /\ faults' = faults + 1
    /\ rollback(w, "StoreError")
    /\ UNCHANGED <<adminVars, subscriptions, idempotency, newsletter_issues, requestVars,
                   handler_calls, initial_queue, sent, worker_calls, completed>>

\* A worker that returns the error of the mailer by `?`.
after_send_email_returning_error(result) ==
    IF result = "failed" THEN "match" ELSE "delete_task"

\* `if let Err(e) = email_client.send_email(..).await { tracing::error!(..) }`:
\* where the iteration goes after the mailer call.
after_send_email(result) == "delete_task"

\* email_client.send_email of the worker: the call succeeds or fails.
worker_send_email(w) ==
    /\ wpc[w] = "send_email"
    /\ worker_calls' = [worker_calls EXCEPT ![Entry(task[w][1])] = @ + 1]
    /\ \E result \in {"ok", "failed"} :
         /\ sent' = [sent EXCEPT ![w] = result]
         /\ IF after_send_email(result) = "delete_task"
            THEN /\ wpc' = [wpc EXCEPT ![w] = "delete_task"]
                 /\ UNCHANGED <<issue_delivery_queue, task, outcome, cut_offs>>
            ELSE rollback(w, "StoreError")
    /\ UNCHANGED <<adminVars, subscriptions, idempotency, newsletter_issues, requestVars,
                   handler_calls, initial_queue, completed, faults>>

\* A DELETE with `WHERE newsletter_issue_id = $1` alone.
remaining_rows_of_other_issues(row) ==
    {other \in issue_delivery_queue : other.newsletter_issue_id # row.newsletter_issue_id}

\* A DELETE whose WHERE clause matches no row.
remaining_rows_deleting_nothing(row) == issue_delivery_queue

\* DELETE FROM issue_delivery_queue WHERE newsletter_issue_id = $1 AND
\* subscriber_email = $2.
remaining_rows(row) == issue_delivery_queue \ {row}

\* delete_task and the return of try_execute_task: DELETE the claimed row,
\* commit, return TaskCompleted.
delete_task(w) ==
    /\ wpc[w] = "delete_task"
    /\ issue_delivery_queue' = remaining_rows(task[w][1])
    /\ completed' = completed \cup {[row |-> task[w][1], sent |-> sent[w]]}
    /\ task' = [task EXCEPT ![w] = <<>>]
    /\ outcome' = [outcome EXCEPT ![w] = "TaskCompleted"]
    /\ wpc' = [wpc EXCEPT ![w] = "match"]
    /\ UNCHANGED <<adminVars, subscriptions, idempotency, newsletter_issues, requestVars,
                   handler_calls, initial_queue, sent, worker_calls, cut_offs, faults>>

\* delete_task when the DELETE or the commit fails: `?` returns the error.
delete_task_error(w) ==
    /\ wpc[w] = "delete_task"
    /\ faults < MaxFaults
    /\ faults' = faults + 1
    /\ rollback(w, "StoreError")
    /\ UNCHANGED <<adminVars, subscriptions, idempotency, newsletter_issues, requestVars,
                   handler_calls, initial_queue, sent, worker_calls, completed>>

\* The worker's process dies while its iteration holds a transaction: the
\* store rolls the transaction back, and a new process starts the loop.
crash(w) ==
    /\ wpc[w] \in {"dequeued", "send_email", "delete_task"}
    /\ faults < MaxFaults
    /\ faults' = faults + 1
    /\ issue_delivery_queue' = after_rollback(task[w][1])
    /\ task' = [task EXCEPT ![w] = <<>>]
    /\ cut_offs' = [cut_offs EXCEPT ![Entry(task[w][1])] = IF sent[w] # "none" THEN @ + 1 ELSE @]
    /\ outcome' = [outcome EXCEPT ![w] = "none"]
    /\ sent' = [sent EXCEPT ![w] = "none"]
    /\ wpc' = [wpc EXCEPT ![w] = "idle"]
    /\ UNCHANGED <<adminVars, subscriptions, idempotency, newsletter_issues, requestVars,
                   handler_calls, initial_queue, worker_calls, completed>>

\* A loop that sleeps after every iteration.
loop_arm_always_sleeping(result) ==
    CASE result = "EmptyQueue" -> "sleep_10"
      [] result = "TaskCompleted" -> "sleep_10"
      [] OTHER -> "sleep_1"

\* A loop that returns the error of an iteration by `?`.
loop_arm_returning_error(result) ==
    CASE result = "EmptyQueue" -> "sleep_10"
      [] result = "TaskCompleted" -> "idle"
      [] OTHER -> "exited"

\* The arms of `match try_execute_task(..).await` in worker_loop: sleep ten
\* seconds on EmptyQueue, one second on Err(_), loop at once on TaskCompleted.
loop_arm(result) ==
    CASE result = "EmptyQueue" -> "sleep_10"
      [] result = "TaskCompleted" -> "idle"
      [] OTHER -> "sleep_1"

worker_loop(w) ==
    /\ wpc[w] = "match"
    /\ wpc' = [wpc EXCEPT ![w] = loop_arm(outcome[w])]
    /\ UNCHANGED <<adminVars, subscriptions, store, requestVars, handler_calls, initial_queue, task, outcome,
                   sent, worker_calls, completed, cut_offs, faults>>

\* tokio::time::sleep returns and the loop starts its next iteration.
sleep(w) ==
    /\ wpc[w] \in {"sleep_10", "sleep_1"}
    /\ wpc' = [wpc EXCEPT ![w] = "idle"]
    /\ UNCHANGED <<adminVars, subscriptions, store, requestVars, handler_calls, initial_queue, task, outcome,
                   sent, worker_calls, completed, cut_offs, faults>>

\* ---- dispatch_all_pending_emails (tests/api/helpers.rs) ------------------

\* The test application, which calls try_execute_task itself.
test_app == 1

\* A loop that breaks as soon as one task has completed.
dispatch_arm_breaking_on_completed(result) ==
    CASE result = "TaskCompleted" -> "break"
      [] result = "EmptyQueue" -> "idle"
      [] OTHER -> "panicked"

\* `if let ExecutionOutcome::EmptyQueue = try_execute_task(..).await.unwrap()
\* { break; }`: unwrap panics on an error, EmptyQueue ends the loop, a
\* completed task starts the next round.
dispatch_arm(result) ==
    CASE result = "EmptyQueue" -> "break"
      [] result = "TaskCompleted" -> "idle"
      [] OTHER -> "panicked"

dispatch_all_pending_emails(w) ==
    /\ wpc[w] = "match"
    /\ wpc' = [wpc EXCEPT ![w] = dispatch_arm(outcome[w])]
    /\ UNCHANGED <<adminVars, subscriptions, store, requestVars, handler_calls, initial_queue, task,
                   outcome, sent, worker_calls, completed, cut_offs, faults>>

\* ---- sessions (TypedSession) ----------------------------------------------

\* TypedSession::get_user_id: the user id the session holds, if any.
get_user_id(s) == s

\* TypedSession::insert_user_id.
insert_user_id(s, user_id) == <<user_id>>

\* TypedSession::log_out: the session is purged.
purge(s) == <<>>

\* ---- login (routes/login/post.rs, authentication/password.rs) ------------

\* SELECT user_id, password_hash FROM users WHERE username = $1.
get_stored_credentials(username) ==
    LET rows == {u \in Users : users[u].username = username}
    IN IF rows = {} THEN <<>>
       ELSE LET u == CHOOSE u \in rows : TRUE
            IN <<[user_id |-> u, password_hash |-> users[u].password_hash]>>

\* A check that accepts every password.
validate_password_accepting_all(password, expected_hash) == "Ok"

\* validate_password: InvalidCredentials when the password does not verify.
validate_password(password, expected_hash) ==
    IF verify_password(password, expected_hash) THEN "Ok" ELSE "InvalidCredentials"

\* validate_credentials: the user id of the username when the password
\* verifies against the stored hash, InvalidCredentials for an unknown
\* username or a password that does not verify.
validate_credentials(username, password) ==
    LET stored == get_stored_credentials(username)
    IN IF stored = <<>>
       THEN [result |-> "InvalidCredentials", user_id |-> 0]
       ELSE IF validate_password(password, stored[1].password_hash) = "Ok"
       THEN [result |-> "Ok", user_id |-> stored[1].user_id]
       ELSE [result |-> "InvalidCredentials", user_id |-> 0]

\* The response a client gets, with the flash message sent along.
Answer(c, route, flash, http_response) ==
    answer' = <<[client |-> c, route |-> route, flash |-> flash, response |-> http_response]>>

\* POST /login: on valid credentials the user id goes into the session and
\* the client is sent to the dashboard; otherwise login_redirect sends it
\* back to /login and the session is not touched.
login(c, username, password) ==
    /\ LET validated == validate_credentials(username, password)
       IN IF validated.result = "Ok"
          THEN /\ session' = [session EXCEPT ![c] = insert_user_id(@, validated.user_id)]
               /\ Answer(c, "POST /login", "", see_other("/admin/dashboard"))
          ELSE /\ Answer(c, "POST /login", "Authentication failed", see_other("/login"))
               /\ UNCHANGED session
    /\ UNCHANGED <<subscribeVars, basic, subscriptions, store, requestVars, handler_calls, workerVars, users, change>>

\* ---- the /admin scope (authentication/middleware.rs, startup.rs) ----------

\* The routes of web::scope("/admin") that the model has handlers for.
AdminRoutes ==
    {"GET /admin/newsletters", "POST /admin/newsletters", "POST /admin/password",
     "POST /admin/logout"}

\* A middleware that lets every request through.
reject_nobody(s) == <<>>

\* reject_anonymous_users: None when the session holds a user id and the
\* request goes on to the handler, the redirect to /login otherwise.
reject_anonymous_users(s) ==
    IF get_user_id(s) = <<>> THEN <<see_other("/login")>> ELSE <<>>

\* What web::ReqData<UserId> finds: the middleware inserts the user id of
\* the session into the request before it calls the handler.
UserIdOf(c) == get_user_id(session[c])

\* The answer of the extractor web::ReqData<UserId> when the request
\* carries no UserId.
missing_user_id == e500("Missing expected request extension data")

\* GET /admin/newsletters.
get_newsletters_form(c) ==
    /\ IF reject_anonymous_users(session[c]) # <<>>
       THEN Answer(c, "GET /admin/newsletters", "", reject_anonymous_users(session[c])[1])
       ELSE Answer(c, "GET /admin/newsletters", "", HttpResponse(200, <<>>, "Send a Newsletter"))
    /\ UNCHANGED <<subscribeVars, basic, subscriptions, store, requestVars, handler_calls, workerVars,
                   users, session, change>>

\* A handler that leaves the session as it is.
session_after_log_out_kept(s) == s

\* `session.log_out()` of the handler log_out.
session_after_log_out(s) == purge(s)

\* POST /admin/logout.
log_out(c) ==
    /\ IF reject_anonymous_users(session[c]) # <<>>
       THEN /\ Answer(c, "POST /admin/logout", "", reject_anonymous_users(session[c])[1])
            /\ UNCHANGED session
       ELSE /\ session' = [session EXCEPT ![c] = session_after_log_out(@)]
            /\ Answer(c, "POST /admin/logout", "You have succesfully logged out",
                      see_other("/login"))
    /\ UNCHANGED <<subscribeVars, basic, subscriptions, store, requestVars, handler_calls, workerVars, users, change>>

\* POST /admin/newsletters: a request the middleware lets through reaches
\* publish_newsletter with the user id of its session.
admin_publish_newsletter(c) ==
    IF reject_anonymous_users(session[c]) # <<>>
    THEN /\ Answer(c, "POST /admin/newsletters", "", reject_anonymous_users(session[c])[1])
         /\ UNCHANGED <<subscribeVars, basic, subscriptions, store, requestVars, handler_calls, workerVars,
                        users, session, change>>
    ELSE IF UserIdOf(c) = <<>>
    THEN /\ Answer(c, "POST /admin/newsletters", "", missing_user_id)
         /\ UNCHANGED <<subscribeVars, basic, subscriptions, store, requestVars, handler_calls, workerVars,
                        users, session, change>>
    ELSE \E r \in Requests :
            /\ pc[r] = "idle"
            /\ \A q \in Requests : q < r => pc[q] # "idle"
            /\ publish_newsletter(r, UserIdOf(c)[1])

\* ---- change_password (routes/admin/password/post.rs) ----------------------

\* A handler that takes the two new passwords to be equal.
passwords_never_differ(new_password, new_password_check) == FALSE

\* `form.new_password.expose_secret() != form.new_password_check.expose_secret()`.
passwords_differ(new_password, new_password_check) == new_password # new_password_check

\* get_username: the username of a user id.
get_username(user_id) == users[user_id].username

\* POST /admin/password up to the validation of the current password: the
\* two new passwords must agree and the current password must verify for
\* the user of the session.
change_password(c, current_password, new_password, new_password_check) ==
    /\ change[c] = <<>>
    /\ IF reject_anonymous_users(session[c]) # <<>>
       THEN /\ Answer(c, "POST /admin/password", "", reject_anonymous_users(session[c])[1])
            /\ UNCHANGED change
       ELSE IF UserIdOf(c) = <<>>
       THEN /\ Answer(c, "POST /admin/password", "", missing_user_id)
            /\ UNCHANGED change
       ELSE IF passwords_differ(new_password, new_password_check)
       THEN /\ Answer(c, "POST /admin/password",
                      "<p><i>You entered two different new passwords - the field values must match</i></p>",
                      see_other("/admin/password"))
            /\ UNCHANGED change
       ELSE IF validate_credentials(get_username(UserIdOf(c)[1]), current_password).result
                  # "Ok"
       THEN /\ Answer(c, "POST /admin/password", "The current password is incorrect",
                      see_other("/admin/password"))
            /\ UNCHANGED change
       ELSE /\ change' = [change EXCEPT
                   ![c] = <<[user_id |-> UserIdOf(c)[1], new_password |-> new_password]>>]
            /\ UNCHANGED answer
    /\ UNCHANGED <<subscribeVars, basic, subscriptions, store, requestVars, handler_calls, workerVars, users, session>>

\* authentication::change_password and the end of the handler: hash the new
\* password with a fresh salt, UPDATE users SET password_hash, answer.
authentication_change_password(c) ==
    /\ change[c] # <<>>
    /\ \E salt \in Salts :
         users' = [users EXCEPT ![change[c][1].user_id].password_hash =
                       compute_password_hash(change[c][1].new_password, salt)]
    /\ change' = [change EXCEPT ![c] = <<>>]
    /\ Answer(c, "POST /admin/password", "Your password has been changed",
              see_other("/admin/password"))
    /\ UNCHANGED <<subscribeVars, basic, subscriptions, store, requestVars, handler_calls, workerVars, session>>

\* ---- specification ------------------------------------------------------

Next ==
    \/ \E r \in Requests : Submit(r)
    \/ \E r \in Requests : try_processing(r)
    \/ \E r \in Requests : get_saved_response(r)
    \/ \E r \in Requests : get_confirmed_subscribers(r)
    \/ \E r \in Requests : send_email(r)
    \/ \E r \in Requests : save_response(r)
    \/ \E e \in Emails : confirm(e)
    \/ dequeue_task(worker_task)
    \/ get_issue(worker_task)
    \/ worker_send_email(worker_task)
    \/ delete_task(worker_task)
    \/ worker_loop(worker_task)
    \/ sleep(worker_task)

\* The process that main starts: the application and one worker, over a
\* store and a worker process that do not fail.
Spec == Init /\ [][Next]_vars

\* The workers alone, over a queue that no publish call changes: every
\* instance of the worker, store errors and crashes included, from every
\* queue of rows of the first issue.
WorkerInit == \E queue \in SUBSET LegacyQueue : StartWith(queue)

WorkerNext ==
    \/ \E w \in Workers : dequeue_task(w)
    \/ \E w \in Workers : dequeue_task_error(w)
    \/ \E w \in Workers : get_issue(w)
    \/ \E w \in Workers : get_issue_error(w)
    \/ \E w \in Workers : worker_send_email(w)
    \/ \E w \in Workers : delete_task(w)
    \/ \E w \in Workers : delete_task_error(w)
    \/ \E w \in Workers : crash(w)
    \/ \E w \in Workers : worker_loop(w)
    \/ \E w \in Workers : sleep(w)

WorkerSpec == WorkerInit /\ [][WorkerNext]_vars

\* dispatch_all_pending_emails alone over the queue: the test application
\* starts no worker, and the loop runs until it breaks or panics.
DispatchNext ==
    \/ dequeue_task(test_app)
    \/ dequeue_task_error(test_app)
    \/ get_issue(test_app)
    \/ get_issue_error(test_app)
    \/ worker_send_email(test_app)
    \/ delete_task(test_app)
    \/ delete_task_error(test_app)
    \/ dispatch_all_pending_emails(test_app)

\* The loop starts from any queue of rows of the two issues.
DispatchInit == \E queue \in SUBSET QueueRows : StartWith(queue)

DispatchSpec == DispatchInit /\ [][DispatchNext]_vars /\ WF_vars(DispatchNext)

\* The publish handler and the confirmation of subscribers alone, over a
\* store that may fail: every early return of the handler.
PublishInit == StartWith({})

PublishNext ==
    \/ \E r \in Requests : Submit(r)
    \/ \E r \in Requests : try_processing(r)
    \/ \E r \in Requests : try_processing_error(r)
    \/ \E r \in Requests : get_saved_response(r)
    \/ \E r \in Requests : get_confirmed_subscribers(r)
    \/ \E r \in Requests : get_confirmed_subscribers_error(r)
    \/ \E r \in Requests : send_email(r)
    \/ \E r \in Requests : save_response(r)
    \/ \E r \in Requests : save_response_error(r)
    \/ \E e \in Emails : confirm(e)

PublishSpec == PublishInit /\ [][PublishNext]_vars

\* The one client of the tests: a browser with a cookie store.
browser == 1

\* The application behind its HTTP routes, used by one client: it logs in and
\* out, changes passwords and publishes through the middleware of the /admin
\* scope, over a store that does not fail.
AdminNext ==
    \/ \E username \in Usernames, password \in Passwords : login(browser, username, password)
    \/ get_newsletters_form(browser)
    \/ log_out(browser)
    \/ \E current_password, new_password, new_password_check \in Passwords :
         change_password(browser, current_password, new_password, new_password_check)
    \/ authentication_change_password(browser)
    \/ admin_publish_newsletter(browser)
    \/ \E r \in Requests : try_processing(r)
    \/ \E r \in Requests : get_saved_response(r)
    \/ \E r \in Requests : get_confirmed_subscribers(r)
    \/ \E r \in Requests : send_email(r)
    \/ \E r \in Requests : save_response(r)

\* At start every stored address is confirmed, so that a publish call that
\* reaches the handler has subscribers to mail.
AdminInit == StartOver({}, [e \in Emails |-> "confirmed"])

AdminSpec == AdminInit /\ [][AdminNext]_vars

\* Login, logout and the change of passwords by all clients at once, without
\* publish calls.
SessionNext ==
    \/ \E c \in Clients, username \in Usernames, password \in Passwords :
         login(c, username, password)
    \/ \E c \in Clients : get_newsletters_form(c)
    \/ \E c \in Clients : log_out(c)
    \/ \E c \in Clients, current_password, new_password, new_password_check \in Passwords :
         change_password(c, current_password, new_password, new_password_check)
    \/ \E c \in Clients : authentication_change_password(c)

SessionSpec == StartWith({}) /\ [][SessionNext]_vars

\* ---- properties ---------------------------------------------------------

\* Issues a publish call has created: every issue beyond those of the start.
IssuesCreated == newsletter_issues \ LegacyIssues

\* The committed rows of a pair whose response has been captured.
Captured(p) ==
    {row \in rows_for(idempotency, p[1], p[2]) : row.response_status_code # <<>>}

\* Request q obtained StartProcessing for pair p and committed its response.
Completed(q, p) ==
    /\ pc[q] = "done"
    /\ PairOf(q) = p
    /\ next_action[q] = "StartProcessing"
    /\ response[q] = <<see_other("/admin/newsletters")>>

\* Two requests that were in flight at the same time.
Overlap(r, q) == q \in in_flight[r] \/ r \in in_flight[q]

\* The queue is empty and no worker is inside an iteration.
Drained == issue_delivery_queue = {} /\ \A w \in Workers : wpc[w] = "idle"

RECURSIVE SumOver(_, _)
SumOver(f, S) ==
    IF S = {} THEN 0
    ELSE LET x == CHOOSE x \in S : TRUE IN f[x] + SumOver(f, S \ {x})

\* All mailer calls the workers have made.
MailerCalls == SumOver(worker_calls, DOMAIN worker_calls)

\* The rows of the queue at start whose stored address passes validation.
ValidAtStart == {row \in initial_queue : validate_email(row.subscriber_email)}

\* C2: publish commits the Issue, its queue rows and the captured response
\* in one step, so in every committed state there is an Issue for exactly
\* the pairs whose captured response is present (each pair having at most
\* one Issue, the two are counted).
C2_IssueAndResponseCommittedTogether ==
    Cardinality(IssuesCreated) = Cardinality({p \in Pairs : Captured(p) # {}})

\* C3: every step of a publish call whose pair an earlier call has already
\* completed leaves the idempotency rows, the issues, the queue and the
\* mailer untouched, and the step that returns hands back exactly the
\* response the earlier call returned, whatever the form carries.
C3_ReplayReturnsCapturedResponse ==
    [][\A r, q \in Requests :
          (r # q /\ pc[r] # "idle" /\ pc'[r] # pc[r] /\ Completed(q, PairOf(r)))
          => /\ UNCHANGED <<idempotency, newsletter_issues, issue_delivery_queue,
                            handler_calls>>
             /\ pc'[r] = "done" => response'[r] = response[q]]_vars

\* C3 witness: a call arrived after an earlier call with the same pair had
\* completed, carried another content and returned the same response.
C3_Witness ==
    \E r, q \in Requests :
        /\ r # q
        /\ Completed(q, PairOf(r))
        /\ q \notin in_flight[r]
        /\ pc[r] = "done"
        /\ next_action[r] = "ReturnSavedResponse"
        /\ form[r].content # form[q].content
        /\ response[r] = response[q]

\* C4: two overlapping publish calls with the same pair end with the same
\* status and the same body, and exactly one Issue exists for the pair
\* afterwards (stated for runs in which every call carries that pair).
C4_ConcurrentCallsAgreeAndOneIssue ==
    \A r, q \in Requests :
        (/\ r # q
         /\ Overlap(r, q)
         /\ \A x \in Requests : pc[x] = "done" /\ PairOf(x) = PairOf(r))
        => /\ response[r] # <<>> /\ response[q] # <<>>
           /\ response[r][1].status = response[q][1].status
           /\ response[r][1].body = response[q][1].body
           /\ Cardinality(IssuesCreated) = 1

\* C5: of two concurrent requests with the same pair exactly one obtains
\* StartProcessing; the other one resolves to ReturnSavedResponse.
C5_ExactlyOneStartProcessing ==
    \A r, q \in Requests :
        (r # q /\ Overlap(r, q) /\ pc[r] # "idle" /\ pc[q] # "idle" /\ PairOf(r) = PairOf(q))
        => /\ ~(next_action[r] = "StartProcessing" /\ next_action[q] = "StartProcessing")
           /\ (pc[r] = "done" /\ pc[q] = "done")
              => {next_action[r], next_action[q]} = {"StartProcessing", "ReturnSavedResponse"}

\* C7: the publish handler makes no mailer call, on any path.
C7_HandlerNeverCallsMailer ==
    \A c \in Pairs \X Emails : handler_calls[c] = 0

\* C8: once every submission of a pair has returned and the worker has
\* drained the queue, each subscriber with a valid address that a submission
\* found confirmed has got exactly one mailer call for that publication.
\* (Workers call the mailer only for the issues of the start, so the calls
\* for the publication are those of handler_calls.)
C8_ExactlyOneCallPerConfirmedSubscriber ==
    \A p \in Pairs :
        LET calls == {r \in Requests : pc[r] # "idle" /\ PairOf(r) = p}
        IN (calls # {} /\ Drained /\ \A r \in calls : pc[r] = "done")
           => \A e \in Emails :
                 (validate_email(e) /\ \E r \in calls : e \in subscribers[r])
                 => handler_calls[<<p, e>>] = 1

\* C9: a subscriber who is still pending confirmation has been fetched by
\* no publish call, has got no mailer call from the handler and has no
\* queue row of an issue created by publish.
C9_NothingForUnconfirmedSubscribers ==
    \A e \in Emails :
        subscriptions[e] = "pending_confirmation"
        => /\ \A p \in Pairs : handler_calls[<<p, e>>] = 0
           /\ \A r \in Requests : e \notin subscribers[r]
           /\ \A row \in issue_delivery_queue :
                 row.subscriber_email = e => row.newsletter_issue_id \in LegacyIssues

\* C9 witness: a publish call has completed while a subscriber with a valid
\* address was still pending, and that subscriber got no mailer call.
C9_Witness ==
    \E r \in Requests, e \in Emails :
        /\ Completed(r, PairOf(r))
        /\ validate_email(e)
        /\ subscriptions[e] = "pending_confirmation"
        /\ subscribers[r] # {}
        /\ \A p \in Pairs : handler_calls[<<p, e>>] = 0

\* C10: the step that commits a first-time publish creates one Issue and
\* exactly one queue row for each fetched subscriber whose address is valid.
C10_QueueRowPerConfirmedSubscriber ==
    [][\A r \in Requests :
          (pc[r] = "save_response" /\ pc'[r] = "done")
          => \E i \in newsletter_issues' \ newsletter_issues :
                issue_delivery_queue' \ issue_delivery_queue =
                    {[newsletter_issue_id |-> i, subscriber_email |-> e] :
                        e \in {e \in subscribers[r] : validate_email(e)}}]_vars

\* C11: in a run without store errors, calling try_execute_task until it
\* returns EmptyQueue comes to an end, and at that end the queue has no rows
\* and the mailer has been called at most once per row of the start whose
\* address is valid, so at most N times for N rows and fewer when some
\* address is invalid.
C11_DispatchDrainsQueue ==
    <>(\/ faults > 0
       \/ /\ wpc[test_app] = "break"
          /\ issue_delivery_queue = {}
          /\ MailerCalls <= Cardinality(ValidAtStart)
          /\ MailerCalls <= Cardinality(initial_queue))

\* C11 witness: the loop has ended on a queue that had three rows, one of
\* them with an invalid address, after two mailer calls.
C11_Witness ==
    /\ wpc[test_app] = "break"
    /\ faults = 0
    /\ Cardinality(initial_queue) = 3
    /\ Cardinality(ValidAtStart) = 2
    /\ issue_delivery_queue = {}
    /\ MailerCalls = 2

C13_CompletedRowNeverReappears ==
    \A c \in completed :
        /\ c.row \notin issue_delivery_queue
        /\ \A w \in Workers : task[w] # <<c.row>>

\* C13 witness: a row has been completed and a worker has claimed another
\* row since.
C13_Witness ==
    \E c \in completed, w \in Workers :
        /\ task[w] # <<>>
        /\ outcome[w] = "none"
        /\ c.row \in initial_queue

\* C14: no two workers hold the same row at the same time, and a worker
\* at the top of its loop can always take its dequeue step, whatever rows
\* the other workers have locked: it never waits for a lock.
C14_NoRowHeldTwiceAndNoWaiting ==
    /\ \A w, v \in Workers : (w # v /\ task[w] # <<>>) => task[w] # task[v]
    /\ \A w \in Workers : wpc[w] = "idle" => ENABLED dequeue_task(w)

\* C14 witness: a worker got EmptyQueue at once although the queue has a
\* row, the row being locked by another worker.
C14_Witness ==
    \E w, v \in Workers :
        /\ w # v
        /\ wpc[w] = "match"
        /\ outcome[w] = "EmptyQueue"
        /\ task[v] # <<>>
        /\ issue_delivery_queue = {task[v][1]}

\* C15: for a claimed row whose address fails validation no mailer call is
\* ever made, the step after the claim goes straight to the delete, the
\* delete removes exactly that row and returns TaskCompleted, and the loop
\* then starts its next iteration at once (steps cut off by a store error
\* or a crash aside).
C15_InvalidAddressSkipped ==
    [][\A w \in Workers :
          (task[w] # <<>> /\ ~validate_email(task[w][1].subscriber_email))
          => /\ worker_calls'[Entry(task[w][1])] = 0
             /\ (wpc[w] = "dequeued" /\ wpc'[w] # wpc[w] /\ faults' = faults)
                => (wpc'[w] = "delete_task" /\ task'[w] = task[w])
             /\ (wpc[w] = "delete_task" /\ wpc'[w] # wpc[w] /\ faults' = faults)
                => /\ issue_delivery_queue' = issue_delivery_queue \ {task[w][1]}
                   /\ outcome'[w] = "TaskCompleted"
                   /\ loop_arm(outcome'[w]) = "idle"]_vars

\* C15 witness: one worker alone has completed a row with an invalid
\* address without a mailer call and is now about to call the mailer for
\* another row.
C15_Witness ==
    \E w \in Workers, c \in completed :
        /\ ~validate_email(c.row.subscriber_email)
        /\ c.sent = "none"
        /\ worker_calls[Entry(c.row)] = 0
        /\ wpc[w] = "send_email"
        /\ \A v \in Workers \ {w} : wpc[v] = "idle" /\ outcome[v] = "none"
        /\ faults = 0

\* C16: a mailer call that fails leaves the worker holding the row and
\* takes it to the delete; the delete of a row whose mailer call failed
\* removes the row and returns TaskCompleted (steps cut off by a store error
\* or a crash aside); and no step makes a mailer call for a row that was
\* completed after a failed call.
C16_FailedSendNotRetried ==
    [][/\ \A w \in Workers :
            /\ (wpc[w] = "send_email" /\ wpc'[w] # wpc[w] /\ faults' = faults
                    /\ sent'[w] = "failed")
               => (wpc'[w] = "delete_task" /\ task'[w] = task[w])
            /\ (wpc[w] = "delete_task" /\ sent[w] = "failed" /\ wpc'[w] # wpc[w]
                    /\ faults' = faults)
               => /\ issue_delivery_queue' = issue_delivery_queue \ {task[w][1]}
                  /\ outcome'[w] = "TaskCompleted"
       /\ \A c \in completed :
            c.sent = "failed"
            => worker_calls'[Entry(c.row)] = worker_calls[Entry(c.row)]]_vars

\* C16 witness: a row whose only mailer call failed has been completed,
\* and the workers have gone on until the queue was empty.
C16_Witness ==
    \E c \in completed :
        /\ c.sent = "failed"
        /\ worker_calls[Entry(c.row)] = 1
        /\ faults = 0
        /\ Cardinality(initial_queue) > 1
        /\ issue_delivery_queue = {}
        /\ \A w \in Workers : wpc[w] = "idle" /\ outcome[w] = "EmptyQueue"

\* C17: a try_execute_task that starts on an empty queue and meets no store
\* error returns EmptyQueue, and it changes neither the queue, the issues,
\* the idempotency rows nor the number of mailer calls.
C17_EmptyQueueLeavesStoreUnchanged ==
    [][\A w \in Workers :
          (/\ wpc[w] = "idle"
           /\ issue_delivery_queue = {}
           /\ wpc'[w] # wpc[w]
           /\ faults' = faults)
          => /\ outcome'[w] = "EmptyQueue"
             /\ wpc'[w] = "match"
             /\ task'[w] = <<>>
             /\ UNCHANGED <<idempotency, newsletter_issues, issue_delivery_queue,
                             worker_calls, handler_calls>>]_vars

\* C17 witness: a worker got EmptyQueue on a queue that the workers had
\* emptied before, and the mailer calls are those made before.
C17_Witness ==
    \E w \in Workers :
        /\ wpc[w] = "match"
        /\ outcome[w] = "EmptyQueue"
        /\ issue_delivery_queue = {}
        /\ initial_queue # {}
        /\ \A v \in Workers : task[v] = <<>>
        /\ MailerCalls = Cardinality({c \in completed : c.sent # "none"})

\* C18: worker_loop has no exit: after every result of try_execute_task the
\* loop sleeps or starts the next iteration, and after a sleep it starts the
\* next iteration.
C18_WorkerLoopNeverReturns ==
    [][\A w \in Workers :
          /\ wpc'[w] \in {"idle", "dequeued", "send_email", "delete_task", "match",
                           "sleep_10", "sleep_1"}
          /\ (wpc[w] = "match" /\ wpc'[w] # wpc[w])
             => wpc'[w] = (CASE outcome[w] = "TaskCompleted" -> "idle"
                             [] outcome[w] = "EmptyQueue" -> "sleep_10"
                             [] IsErr(outcome[w]) -> "sleep_1")
          /\ (wpc[w] \in {"sleep_10", "sleep_1"} /\ wpc'[w] # wpc[w]) => wpc'[w] = "idle"]_vars

\* C18 witness: a worker whose iteration returned an error has slept and
\* stands at the top of the loop again, ready to claim a row of the queue.
C18_Witness ==
    \E w \in Workers :
        /\ wpc[w] = "idle"
        /\ IsErr(outcome[w])
        /\ ENABLED dequeue_task(w)
        /\ issue_delivery_queue # {}

\* C19: when a worker lets go of a row without TaskCompleted (a store
\* error or a crash), the row is still in the queue and every worker may
\* claim it; and a row leaves the queue only in the step in which the worker
\* that holds it returns TaskCompleted.
C19_UncommittedIterationKeepsRow ==
    [][/\ \A w \in Workers :
            (task[w] # <<>> /\ task'[w] = <<>> /\ outcome'[w] # "TaskCompleted")
            => /\ task[w][1] \in issue_delivery_queue'
               /\ \A v \in Workers : task[w][1] \in claimable(v)'
       /\ \A row \in issue_delivery_queue \ issue_delivery_queue' :
            \E w \in Workers :
                /\ task[w] = <<row>>
                /\ wpc[w] = "delete_task"
                /\ task'[w] = <<>>
                /\ outcome'[w] = "TaskCompleted"]_vars

\* C19 witness: a row whose iteration was cut off after the mailer call is
\* held by a worker again.
C19_Witness ==
    \E w \in Workers :
        /\ task[w] # <<>>
        /\ cut_offs[Entry(task[w][1])] > 0
        /\ task[w][1] \in issue_delivery_queue

\* C20: the mailer calls made for a queue entry number at most one plus the
\* iterations on it that were cut off between the mailer call and the
\* commit; without such a cut-off an entry gets at most one call.
C20_CallsBoundedByCutOffs ==
    \A e \in DOMAIN worker_calls : worker_calls[e] <= 1 + cut_offs[e]

\* C20 witness: an entry has got two mailer calls after one cut-off.
C20_Witness ==
    \E e \in DOMAIN worker_calls : worker_calls[e] = 2 /\ cut_offs[e] = 1

\* C21: a publish call that obtained StartProcessing is answered with the
\* accepted response whatever the mailer did: no mailer failure becomes an
\* error response of the call.
C21_MailerFailureNotSurfaced ==
    \A r \in Requests :
        (pc[r] = "done" /\ next_action[r] = "StartProcessing")
        => response[r] = <<see_other("/admin/newsletters")>>

\* C22: the step in which a publish call that holds the transaction of
\* StartProcessing ends with an error leaves the idempotency rows, the issues
\* and the queue as they are, closes the transaction, and leaves no record of
\* the call's pair behind.
C22_FailedCallLeavesNothing ==
    [][\A r \in Requests :
          (/\ transaction[r] # <<>>
           /\ pc'[r] = "done"
           /\ response'[r] # <<>>
           /\ response'[r][1].status = 500)
          => /\ UNCHANGED <<idempotency, newsletter_issues, issue_delivery_queue>>
             /\ transaction'[r] = <<>>
             /\ rows_for(idempotency', form[r].user_id, form[r].idempotency_key) = {}]_vars

\* C22 witness: a call failed on a store error after StartProcessing, and a
\* later call with the same pair obtained StartProcessing again and completed.
C22_Witness ==
    \E r, q \in Requests :
        /\ r # q
        /\ pc[r] = "done"
        /\ next_action[r] = "StartProcessing"
        /\ response[r] = <<e500("StoreError")>>
        /\ r \notin in_flight[q]
        /\ Completed(q, PairOf(r))

\* C23: a publish call whose key does not parse is answered with a 400 in
\* the step in which it arrives: it opens no transaction, obtains no branch of
\* try_processing, fetches no subscribers, and its arrival changes neither
\* the idempotency rows, the issues, the queue nor the mailer calls.
C23_MalformedKeyRejectedFirst ==
    [][\A r \in Requests :
          (pc'[r] # "idle" /\ try_from(form'[r].idempotency_key) = <<>>)
          => /\ pc'[r] = "done"
             /\ response'[r] # <<>>
             /\ response'[r][1].status = 400
             /\ transaction'[r] = <<>>
             /\ next_action'[r] = "none"
             /\ subscribers'[r] = {}
             /\ pc[r] = "idle"
                => UNCHANGED <<idempotency, newsletter_issues, issue_delivery_queue,
                               handler_calls, transaction>>]_vars

\* C23 witness: a call with an empty key was rejected while a subscriber was
\* confirmed and another call held its transaction, and that other call
\* completed afterwards.
C23_Witness ==
    \E r, q \in Requests :
        /\ pc[r] = "done"
        /\ form[r].idempotency_key = 0
        /\ response[r] = <<e400("The idempotency key cannot be empty")>>
        /\ q \in in_flight[r]
        /\ Completed(q, PairOf(q))
        /\ subscribers[q] # {}
        /\ idempotency # {}

\* C24: every step keeps each idempotency row whose response has been
\* captured exactly as it is, as the only row of its pair, and the UPDATE of
\* save_response is committed only for a pair that has no captured row yet:
\* a captured response is written once and never rewritten or deleted.
C24_CapturedRecordNeverChanges ==
    [][/\ \A row \in idempotency :
            row.response_status_code # <<>>
            => /\ row \in idempotency'
               /\ rows_for(idempotency', row.user_id, row.idempotency_key) = {row}
       /\ \A r \in Requests :
            (/\ pc[r] = "save_response"
             /\ pc'[r] = "done"
             /\ response'[r] = <<see_other("/admin/newsletters")>>)
            => Captured(PairOf(r)) = {}]_vars

\* C24 witness: after a call had committed its captured row, a call of
\* another pair arrived and committed, and the first row is still the one
\* the first call wrote.
C24_Witness ==
    \E r, q \in Requests :
        /\ r # q
        /\ Completed(q, PairOf(q))
        /\ pc[r] = "done"
        /\ PairOf(r) # PairOf(q)
        /\ Completed(r, PairOf(r))
        /\ q \notin in_flight[r]
        /\ Captured(PairOf(q)) =
              {updated_row(placeholder(form[q].user_id, form[q].idempotency_key),
                           see_other("/admin/newsletters"))}
        /\ Cardinality(idempotency) = 2

\* C25: once the publish of a pair has committed, no step makes a mailer call
\* of the handler for that pair, adds a queue row or adds an issue, whoever
\* becomes confirmed afterwards and whatever the worker has still to do; and
\* the handler has called the mailer for a pair only for addresses that a
\* call of that pair had fetched as confirmed.
C25_RecipientsFixedAtCommit ==
    [][/\ \A p \in Pairs :
            Captured(p) # {}
            => /\ \A e \in Emails : handler_calls'[<<p, e>>] = handler_calls[<<p, e>>]
               /\ issue_delivery_queue' \subseteq issue_delivery_queue
               /\ newsletter_issues' = newsletter_issues
       /\ \A p \in Pairs, e \in Emails :
            handler_calls'[<<p, e>>] > 0
            => \E r \in Requests : pc'[r] # "idle" /\ PairOf(r)' = p /\ e \in subscribers'[r]]_vars

\* C25 witness: a publish committed without a subscriber who has a valid
\* address, that subscriber is confirmed now, a replay of the pair has been
\* answered since, the worker still has rows to process, and the subscriber
\* has got no mailer call for the pair.
C25_Witness ==
    \E r, q \in Requests, e \in Emails :
        /\ Completed(r, PairOf(r))
        /\ validate_email(e)
        /\ e \notin subscribers[r]
        /\ subscriptions[e] = "confirmed"
        /\ q # r
        /\ r \notin in_flight[q]
        /\ PairOf(q) = PairOf(r)
        /\ pc[q] = "done"
        /\ next_action[q] = "ReturnSavedResponse"
        /\ issue_delivery_queue # {}
        /\ handler_calls[<<PairOf(r), e>>] = 0

\* C26: a request to a route of the /admin scope from a client whose session
\* holds no user id (and who has no request in progress that was let in
\* before) is answered with the redirect to /login, and that step changes no
\* idempotency row, issue, queue row, password, mailer call, session or
\* position of a publish call; and a publish call or a password change only
\* ever starts for the user id that the session of some client holds.
C26_AnonymousNeverReachesHandler ==
    [][/\ \A c \in Clients :
            (/\ session[c] = <<>>
             /\ change[c] = <<>>
             /\ answer' # answer
             /\ answer'[1].client = c
             /\ answer'[1].route \in AdminRoutes)
            => /\ answer'[1].response = see_other("/login")
               /\ UNCHANGED <<idempotency, newsletter_issues, issue_delivery_queue, users,
                               handler_calls, pc, form, transaction, session, change>>
       /\ \A r \in Requests :
            (pc[r] = "idle" /\ pc'[r] # "idle")
            => \E c \in Clients : session[c] = <<form'[r].user_id>>
       /\ \A c \in Clients :
            (change[c] = <<>> /\ change'[c] # <<>>) => session[c] = <<change'[c][1].user_id>>
       /\ users' # users => \E c \in Clients : change[c] # <<>>]_vars

\* C26 witness: the client published while logged in, logged out, and its
\* next POST /admin/newsletters was redirected to /login with a request slot
\* still free.
C26_Witness ==
    /\ session[browser] = <<>>
    /\ answer = <<[client |-> browser, route |-> "POST /admin/newsletters", flash |-> "",
                   response |-> see_other("/login")]>>
    /\ \E r \in Requests :
          /\ Completed(r, PairOf(r))
          /\ \E e \in Emails : handler_calls[<<PairOf(r), e>>] > 0
    /\ \E r \in Requests : pc[r] = "idle"

\* The credentials do not belong to a user: no user has the username, or
\* the password does not verify against the hash stored for it.
WrongCredentials(username, password) ==
    \/ \A u \in Users : users[u].username # username
    \/ \E u \in Users :
          users[u].username = username /\ ~verify_password(password, users[u].password_hash)

\* C27: a login with a username no user has, or with a password that does
\* not verify for the username, leaves the session of the client as it was
\* and is answered with the redirect to /login; a client that had no user id
\* in its session is therefore still turned away by the middleware of the
\* /admin scope.
C27_FailedLoginEstablishesNoSession ==
    [][\A c \in Clients, username \in Usernames, password \in Passwords :
          (login(c, username, password) /\ WrongCredentials(username, password))
          => /\ session' = session
             /\ answer' = <<[client |-> c, route |-> "POST /login",
                             flash |-> "Authentication failed",
                             response |-> see_other("/login")]>>
             /\ session[c] = <<>>
                => reject_anonymous_users(session'[c]) = <<see_other("/login")>>]_vars

\* C27 witness: a client without a session has just failed to log in, at a
\* time when a user's password is no longer the one of the start (so that
\* the old password is a wrong one) and another client is logged in.
C27_Witness ==
    \E c, d \in Clients, u \in Users :
        /\ c # d
        /\ session[c] = <<>>
        /\ session[d] = <<u>>
        /\ answer = <<[client |-> c, route |-> "POST /login",
                       flash |-> "Authentication failed", response |-> see_other("/login")]>>
        /\ ~verify_password(1, users[u].password_hash)

\* ---- the basic-auth publish variant (routes/newsletters.rs) ---------------

\* The character ':' of a decoded credential string; the other characters
\* are written as the numbers of usernames and passwords.
Colon == 0 - 1

\* The credential strings a client can encode: nothing, a username alone,
\* "username:password", and a password that itself holds a ':'.
Texts ==
    {<<>>} \cup {<<u>> : u \in Usernames}
           \cup {<<u, Colon, p>> : u \in Usernames, p \in Passwords}
           \cup {<<u, Colon, p, Colon, q>> : u \in Usernames, p \in Passwords, q \in Passwords}

\* What can be wrong with an Authorization header before its credential
\* string is looked at.
Defects == {"not a string", "not Basic", "not base64", "not utf-8"}

\* The headers of a request: no Authorization header, a well-formed one over
\* any credential string, or a defective one over valid credentials.
AuthorizationHeaders ==
    {<<>>} \cup {<<[defect |-> "none", text |-> x]>> : x \in Texts}
           \cup {<<[defect |-> d, text |-> <<1, Colon, 1>>]>> : d \in Defects}

\* str::splitn(2, ':'): the string before the first ':' and the string after
\* it, or the whole string when it holds no ':'.
splitn(text) ==
    IF \E i \in 1..Len(text) : text[i] = Colon
    THEN LET i == CHOOSE i \in 1..Len(text) :
                      text[i] = Colon /\ \A j \in 1..(i - 1) : text[j] # Colon
         IN <<SubSeq(text, 1, i - 1), SubSeq(text, i + 1, Len(text))>>
    ELSE <<text>>

\* The two variants of PublishError, with the error they wrap.
AuthError(source) == [kind |-> "AuthError", source |-> source]

UnexpectedError(source) == [kind |-> "UnexpectedError", source |-> source]

\* An error_response that says what failed.
error_response_with_cause(error) ==
    IF error.kind = "AuthError"
    THEN HttpResponse(401, << <<"WWW-Authenticate", "Basic realm=\"publish\"">> >>, error.source)
    ELSE HttpResponse(500, <<>>, "")

\* PublishError::error_response: 401 with the challenge for AuthError, 500
\* for UnexpectedError, both without a body and whatever the wrapped error.
error_response(error) ==
    IF error.kind = "AuthError"
    THEN HttpResponse(401, << <<"WWW-Authenticate", "Basic realm=\"publish\"">> >>, "")
    ELSE HttpResponse(500, <<>>, "")

\* basic_authentication: the credentials of the Authorization header, or the
\* error of the first step that fails.
basic_authentication(headers) ==
    IF headers = <<>>
    THEN [result |-> "Err", error |-> "The 'Authorization' header was missing"]
    ELSE IF headers[1].defect = "not a string"
    THEN [result |-> "Err",
          error |-> "The 'Authorization' header was not a valid UTF-8 string"]
    ELSE IF headers[1].defect = "not Basic"
    THEN [result |-> "Err", error |-> "The Authorization scheme was not 'Basic'"]
    ELSE IF headers[1].defect = "not base64"
    THEN [result |-> "Err", error |-> "Failed to base64-decode 'Basic' credentials"]
    ELSE IF headers[1].defect = "not utf-8"
    THEN [result |-> "Err", error |-> "The decoded credential string is not valid utf-8"]
    ELSE LET credentials == splitn(headers[1].text)
         IN IF Len(credentials) < 2
            THEN [result |-> "Err", error |-> "A password must be provided in 'Basic' auth"]
            ELSE [result |-> "Ok", username |-> credentials[1], password |-> credentials[2]]

\* get_stored_credentials of the variant: the row of users with the
\* username, if any.
basic_get_stored_credentials(username) ==
    IF \E u \in Users : <<users[u].username>> = username
    THEN LET u == CHOOSE u \in Users : <<users[u].username>> = username
         IN <<[user_id |-> u, password_hash |-> users[u].password_hash]>>
    ELSE <<>>

\* validate_password of the variant: AuthError when the password does not
\* verify against the expected hash.
basic_validate_password(password, expected_hash) ==
    IF \E p \in Passwords : password = <<p>> /\ verify_password(p, expected_hash)
    THEN [result |-> "Ok"]
    ELSE [result |-> "Err", error |-> AuthError("Invalid password")]

\* validate_credentials of the variant: AuthError for an unknown username,
\* then the result of validate_password.
basic_validate_credentials(credentials) ==
    LET stored == basic_get_stored_credentials(credentials.username)
    IN IF stored = <<>>
       THEN [result |-> "Err", error |-> AuthError("Unknown usernam")]
       ELSE basic_validate_password(credentials.password, stored[1].password_hash)

\* publish_newsletter of the variant up to its query: a request that fails
\* basic_authentication or validate_credentials is answered by
\* error_response; the user id of an accepted one is only recorded in the
\* tracing span.
basic_publish_newsletter(c, headers) ==
    /\ basic[c] = <<>>
    /\ LET credentials == basic_authentication(headers)
       IN IF credentials.result # "Ok"
          THEN /\ Answer(c, "POST /newsletters", "", error_response(AuthError(credentials.error)))
               /\ UNCHANGED basic
          ELSE IF basic_validate_credentials(credentials).result # "Ok"
          THEN /\ Answer(c, "POST /newsletters", "",
                         error_response(basic_validate_credentials(credentials).error))
               /\ UNCHANGED basic
          ELSE /\ basic' = [basic EXCEPT ![c] = <<[pc |-> "get_confirmed_subscribers",
                                                   todo |-> {}]>>]
               /\ UNCHANGED answer
    /\ UNCHANGED <<subscribeVars, subscriptions, store, requestVars, handler_calls, workerVars,
                   users, session, change>>

\* get_confirmed_subscribers of the variant; with no confirmed subscriber
\* the loop is empty and the request is answered 200.
basic_get_confirmed_subscribers(c) ==
    /\ basic[c] # <<>>
    /\ basic[c][1].pc = "get_confirmed_subscribers"
    /\ IF confirmed_subscribers = {}
       THEN /\ basic' = [basic EXCEPT ![c] = <<>>]
            /\ Answer(c, "POST /newsletters", "", HttpResponse(200, <<>>, ""))
       ELSE /\ basic' = [basic EXCEPT ![c] = <<[pc |-> "send_email",
                                                todo |-> confirmed_subscribers]>>]
            /\ UNCHANGED answer
    /\ UNCHANGED <<subscribeVars, subscriptions, store, requestVars, handler_calls, workerVars,
                   users, session, change>>

\* One round of the loop of the variant: an address that fails validation
\* is logged and skipped, a valid one gets a mailer call, whose failure ends
\* the request with UnexpectedError; after the last round the request is
\* answered 200.
basic_send_email(c) ==
    /\ basic[c] # <<>>
    /\ basic[c][1].pc = "send_email"
    /\ \E e \in basic[c][1].todo, delivered \in BOOLEAN :
         IF validate_email(e) /\ ~delivered
         THEN /\ basic' = [basic EXCEPT ![c] = <<>>]
              /\ Answer(c, "POST /newsletters", "",
                        error_response(UnexpectedError("Failed to send newsletter to "
                                                       \o ToString(e))))
         ELSE IF basic[c][1].todo = {e}
         THEN /\ basic' = [basic EXCEPT ![c] = <<>>]
              /\ Answer(c, "POST /newsletters", "", HttpResponse(200, <<>>, ""))
         ELSE /\ basic' = [basic EXCEPT ![c] = <<[pc |-> "send_email", todo |-> @[1].todo \ {e}]>>]
              /\ UNCHANGED answer
    /\ UNCHANGED <<subscribeVars, subscriptions, store, requestVars, handler_calls, workerVars,
                   users, session, change>>

\* The variant over clients that send any header, while subscribers confirm
\* and the browser logs in and changes passwords.
BasicAuthNext ==
    \/ \E username \in Usernames, password \in Passwords : login(browser, username, password)
    \/ \E current_password, new_password, new_password_check \in Passwords :
         change_password(browser, current_password, new_password, new_password_check)
    \/ authentication_change_password(browser)
    \/ \E c \in Clients, headers \in AuthorizationHeaders : basic_publish_newsletter(c, headers)
    \/ \E c \in Clients : basic_get_confirmed_subscribers(c)
    \/ \E c \in Clients : basic_send_email(c)
    \/ \E e \in Emails : confirm(e)

BasicAuthSpec == StartWith({}) /\ [][BasicAuthNext]_vars

\* The Authorization header a client builds from a username and a password.
basic_auth(username, password) == <<[defect |-> "none", text |-> <<username, Colon, password>>]>>

\* The answer that tells a client nothing but that authentication failed.
Challenge(c) ==
    <<[client |-> c, route |-> "POST /newsletters", flash |-> "",
       response |-> HttpResponse(401, << <<"WWW-Authenticate", "Basic realm=\"publish\"">> >>, "")]>>

\* C28: on the basic-auth publish variant a request with a username no user
\* has and a request with a user's username and a password that does not
\* verify get one and the same response, 401 with the challenge
\* Basic realm="publish" and an empty body, and neither starts the delivery.
C28_UnknownUserAndWrongPasswordAnswerAlike ==
    [][\A c \in Clients, username \in Usernames, password \in Passwords :
          (basic_publish_newsletter(c, basic_auth(username, password))
             /\ WrongCredentials(username, password))
          => answer' = Challenge(c) /\ basic' = basic]_vars

\* C28 witness: a client has been answered with the challenge while the
\* call of another client, whose credentials were accepted, is mailing, and
\* a user's password is no longer the one of the start.
C28_Witness ==
    \E c, d \in Clients :
        /\ c # d
        /\ \E u \in Users : ~verify_password(1, users[u].password_hash)
        /\ answer = Challenge(c)
        /\ basic[d] # <<>>
        /\ basic[d][1].pc = "send_email"

\* The answer of the handler log_out.
LoggedOut(c) ==
    <<[client |-> c, route |-> "POST /admin/logout",
       flash |-> "You have succesfully logged out", response |-> see_other("/login")]>>

\* C29: when a client whose session holds a user id posts to /admin/logout,
\* its session holds none afterwards; while the session of a client holds no
\* user id, each of its requests to an admin route is answered with the
\* redirect to /login and changes nothing else, and only a login of that
\* client with a user's username and password puts a user id there again.
C29_LoggedOutUntilNextLogin ==
    [][\A c \in Clients :
          /\ (log_out(c) /\ session[c] # <<>>)
             => session'[c] = <<>> /\ answer' = LoggedOut(c)
          /\ session[c] = <<>>
             => /\ ( \/ get_newsletters_form(c)
                     \/ log_out(c)
                     \/ \E current_password, new_password, new_password_check \in Passwords :
                          change_password(c, current_password, new_password,
                                          new_password_check) )
                   => /\ answer' # <<>>
                      /\ answer'[1].client = c
                      /\ answer'[1].response = see_other("/login")
                      /\ UNCHANGED <<users, session, change>>
                /\ session'[c] # <<>>
                   => \E username \in Usernames, password \in Passwords :
                        /\ login(c, username, password)
                        /\ ~WrongCredentials(username, password)]_vars

\* C29 witness: a client has just logged out and its session holds no user
\* id, while another client is still logged in.
C29_Witness ==
    \E c, d \in Clients :
        /\ c # d
        /\ answer = LoggedOut(c)
        /\ session[c] = <<>>
        /\ session[d] # <<>>

\* The answer of change_password after the UPDATE.
PasswordChanged(c) ==
    <<[client |-> c, route |-> "POST /admin/password",
       flash |-> "Your password has been changed", response |-> see_other("/admin/password")]>>

\* C30: a POST /admin/password goes on to store the new password exactly
\* when the client is logged in, new_password equals new_password_check and
\* current_password verifies against the hash stored for the user of the
\* session; the request itself and every other outcome leave the table
\* users as it is; the table changes only when such a request stores its
\* new password, for its user alone, and in the state after that the new
\* password, and no other, verifies against the hash stored for that user.
C30_PasswordChangesOnlyWhenChecked ==
    [][/\ \A c \in Clients, current_password, new_password, new_password_check \in Passwords :
            change_password(c, current_password, new_password, new_password_check)
            => LET checked ==
                     /\ session[c] # <<>>
                     /\ new_password = new_password_check
                     /\ verify_password(current_password,
                                        users[session[c][1]].password_hash)
               IN /\ users' = users
                  /\ change'[c] # <<>> <=> checked
                  /\ checked => change'[c] = <<[user_id |-> session[c][1],
                                                new_password |-> new_password]>>
                  /\ ~checked => /\ answer' # <<>>
                                 /\ answer'[1].client = c
                                 /\ answer'[1].flash # "Your password has been changed"
       /\ \A c \in Clients : change'[c] # change[c] /\ change'[c] # <<>>
            => \E current_password, new_password, new_password_check \in Passwords :
                 change_password(c, current_password, new_password, new_password_check)
       /\ users' # users
            => \E c \in Clients :
                 /\ change[c] # <<>>
                 /\ authentication_change_password(c)
                 /\ answer' = PasswordChanged(c)
                 /\ \A u \in Users \ {change[c][1].user_id} : users'[u] = users[u]
       /\ \A c \in Clients : authentication_change_password(c)
            => LET user_id == change[c][1].user_id
                   new_password == change[c][1].new_password
               IN /\ users'[user_id].username = users[user_id].username
                  /\ verify_password(new_password, users'[user_id].password_hash)
                  /\ \A password \in Passwords \ {new_password} :
                       ~verify_password(password, users'[user_id].password_hash)]_vars

\* C30 witness: a logged-in client has been told that its password has been
\* changed, and the password of its user is no longer the one of the start
\* but the second password.
C30_Witness ==
    \E c \in Clients :
        /\ answer = PasswordChanged(c)
        /\ session[c] # <<>>
        /\ ~verify_password(1, users[session[c][1]].password_hash)
        /\ validate_credentials(users[session[c][1]].username, 2).result = "Ok"

\* ---- subscribe (routes/subscriptions.rs) -----------------------------------

\* The names of a form: 0 stands for a name SubscriberName::parse rejects.
Names == {0, 1}

\* SubscriberName::parse succeeds for a name that is not blank, not too long
\* and free of the forbidden characters.
parse_name(s) == s # 0

\* TryFrom<FormData> for NewSubscriber: the email is parsed first, then the
\* name; None on success, else the message of the first failure.
try_from_form(email, name) ==
    IF ~validate_email(email) THEN <<"not a valid email">>
    ELSE IF ~parse_name(name) THEN <<"subscriber name is either empty or just whitespaces">>
    ELSE <<>>

\* ResponseError for SubscribeError, with the default error_response: the
\* status of the variant and the error's text as body.
ValidationError(message) == HttpResponse(400, <<>>, message)

SubscribeUnexpectedError(context) == HttpResponse(500, <<>>, context)

\* An address has a row in subscriptions.
Stored(e) == subscriptions[e] # "none"

\* subscribe up to the commit: the form is validated, and insert_subscriber
\* and store_token run inside the transaction with a newly drawn token. The
\* subscriber id is written as the address it belongs to. The form of a
\* request carries an address that has no row yet and that no other request
\* is inserting.
subscribe(c, email, name) ==
    /\ subscribing[c] = <<>>
    /\ IF try_from_form(email, name) # <<>>
       THEN /\ Answer(c, "POST /subscriptions", "", ValidationError(try_from_form(email, name)[1]))
            /\ UNCHANGED subscribing
       ELSE /\ ~Stored(email)
            /\ \A d \in Clients : subscribing[d] # <<>> => subscribing[d][1].email # email
            /\ \E t \in Tokens :
                 /\ \A row \in subscription_token : row.subscription_token # t
                 /\ \A d \in Clients :
                      subscribing[d] # <<>> => subscribing[d][1].subscription_token # t
                 /\ subscribing' = [subscribing EXCEPT
                        ![c] = <<[pc |-> "commit", email |-> email, subscription_token |-> t]>>]
            /\ UNCHANGED answer
    /\ UNCHANGED <<subscription_token, confirmation_emails, basic, subscriptions, store,
                   requestVars, handler_calls, workerVars, users, session, change>>

\* The status insert_subscriber writes.
inserted_status == "pending_confirmation"

\* transaction.commit(): the row of subscriptions and the row of
\* subscription_token become visible together.
subscribe_commit(c) ==
    /\ subscribing[c] # <<>>
    /\ subscribing[c][1].pc = "commit"
    /\ subscriptions' = [subscriptions EXCEPT ![subscribing[c][1].email] = inserted_status]
    /\ subscription_token' = subscription_token \cup
           {[subscription_token |-> subscribing[c][1].subscription_token,
             subscriber_id |-> subscribing[c][1].email]}
    /\ subscribing' = [subscribing EXCEPT ![c] = <<[@[1] EXCEPT !.pc = "send_confirmation_email"]>>]
    /\ UNCHANGED <<confirmation_emails, basic, store, requestVars, handler_calls, workerVars,
                   users, session, change, answer>>

\* An INSERT or the commit fails: the `?` drops the transaction, nothing of
\* it is stored and the request is answered 500.
subscribe_store_error(c) ==
    /\ subscribing[c] # <<>>
    /\ subscribing[c][1].pc = "commit"
    /\ faults < MaxFaults
    /\ faults' = faults + 1
    /\ subscribing' = [subscribing EXCEPT ![c] = <<>>]
    /\ Answer(c, "POST /subscriptions", "",
              SubscribeUnexpectedError("Failed to commit SQL transaction to commit new subscriber"))
    /\ UNCHANGED <<subscription_token, confirmation_emails, basic, subscriptions, store,
                   requestVars, handler_calls, wpc, task, outcome, sent, worker_calls,
                   completed, cut_offs, initial_queue, users, session, change>>

\* A handler that takes back the subscriber when the email fails.
rows_after_send_error_rolled_back(c) ==
    [subscriptions EXCEPT ![subscribing[c][1].email] = "none"]

\* The rows of subscriptions after send_confirmation_email failed: the
\* transaction was committed before the call, the `?` has nothing to drop.
rows_after_send_error(c) == subscriptions

\* send_confirmation_email and the end of subscribe: 200 when the mailer
\* accepts the email with the link, 500 when it does not.
send_confirmation_email(c) ==
    /\ subscribing[c] # <<>>
    /\ subscribing[c][1].pc = "send_confirmation_email"
    /\ \E delivered \in BOOLEAN :
         IF delivered
         THEN /\ confirmation_emails' = confirmation_emails \cup
                     {<<subscribing[c][1].email, subscribing[c][1].subscription_token>>}
              /\ Answer(c, "POST /subscriptions", "", HttpResponse(200, <<>>, ""))
              /\ UNCHANGED subscriptions
         ELSE /\ subscriptions' = rows_after_send_error(c)
              /\ Answer(c, "POST /subscriptions", "",
                        SubscribeUnexpectedError(
                            "Failed to send confirmation email for the new subscriber"))
              /\ UNCHANGED confirmation_emails
    /\ subscribing' = [subscribing EXCEPT ![c] = <<>>]
    /\ UNCHANGED <<subscription_token, basic, store, requestVars, handler_calls, workerVars,
                   users, session, change>>

\* ---- confirm with its token (routes/subscriptions_confirm.rs) --------------

\* The tokens a request can carry: 0 is a token never drawn.
LinkTokens == 0..NumTokens

\* A lookup that finds a subscriber for every token.
get_any_subscriber_id(token) ==
    <<CHOOSE e \in Emails : Stored(e)>>

\* get_subscriber_id_from_token: the subscriber id of the row with the
\* token, None without such a row.
get_subscriber_id_from_token(token) ==
    IF \E row \in subscription_token : row.subscription_token = token
    THEN <<(CHOOSE row \in subscription_token : row.subscription_token = token).subscriber_id>>
    ELSE <<>>

\* confirm_suscriber: UPDATE subscriptions SET status = 'confirmed' WHERE
\* id = $1.
confirm_suscriber(subscriber_id) ==
    [e \in Emails |-> IF e = subscriber_id /\ Stored(e) THEN "confirmed" ELSE subscriptions[e]]

\* GET /subscriptions/confirm with a subscription_token: UnauthorizedError
\* (401) when no row has the token, else the subscriber of the token is
\* set to confirmed and the request is answered 200.
subscriptions_confirm(c, token) ==
    /\ LET id == get_subscriber_id_from_token(token)
       IN IF id = <<>>
          THEN /\ Answer(c, "GET /subscriptions/confirm", "",
                         HttpResponse(401, <<>>,
                             "No subscriber pending confirmation for the provided confirmation token"))
               /\ UNCHANGED subscriptions
          ELSE /\ subscriptions' = confirm_suscriber(id[1])
               /\ Answer(c, "GET /subscriptions/confirm", "", HttpResponse(200, <<>>, ""))
    /\ UNCHANGED <<subscribeVars, basic, store, requestVars, handler_calls, workerVars,
                   users, session, change>>

\* Clients that subscribe and follow confirmation links, next to a
\* subscriber stored earlier whose address no longer passes validation.
SubscribeNext ==
    \/ \E c \in Clients, email \in Emails, name \in Names : subscribe(c, email, name)
    \/ \E c \in Clients : subscribe_commit(c)
    \/ \E c \in Clients : subscribe_store_error(c)
    \/ \E c \in Clients : send_confirmation_email(c)
    \/ \E c \in Clients, token \in LinkTokens : subscriptions_confirm(c, token)

SubscribeInit ==
    StartOver({}, [e \in Emails |-> IF validate_email(e) THEN "none"
                                     ELSE "pending_confirmation"])

SubscribeSpec == SubscribeInit /\ [][SubscribeNext]_vars

\* The answer of confirm to a token no row has.
Unauthorized(c) ==
    <<[client |-> c, route |-> "GET /subscriptions/confirm", flash |-> "",
       response |-> HttpResponse(401, <<>>,
           "No subscriber pending confirmation for the provided confirmation token")]>>

\* C31: a subscriber comes into the table with status pending_confirmation;
\* a subscriber becomes confirmed only in a confirm request whose token is
\* stored for that very subscriber, and a confirmed subscriber stays
\* confirmed; a confirm request with a token that no row has is answered
\* 401 and leaves every subscriber as it was.
C31_ConfirmedOnlyByOwnToken ==
    [][/\ \A e \in Emails :
            /\ (subscriptions[e] = "none" /\ subscriptions'[e] # "none")
               => subscriptions'[e] = "pending_confirmation"
            /\ (subscriptions[e] # "confirmed" /\ subscriptions'[e] = "confirmed")
               => \E c \in Clients, token \in LinkTokens :
                    /\ subscriptions_confirm(c, token)
                    /\ [subscription_token |-> token, subscriber_id |-> e]
                          \in subscription_token
                    /\ subscriptions[e] = "pending_confirmation"
            /\ subscriptions[e] = "confirmed" => subscriptions'[e] = "confirmed"
       /\ \A c \in Clients, token \in LinkTokens :
            (subscriptions_confirm(c, token)
               /\ \A row \in subscription_token : row.subscription_token # token)
            => answer' = Unauthorized(c) /\ subscriptions' = subscriptions]_vars

\* C31 witness: a subscriber that came in by subscribe has been confirmed
\* with the token of its confirmation email while the subscriber stored
\* earlier is still pending, and the last request, with a token no row has,
\* was answered 401.
C31_Witness ==
    \E c \in Clients, e \in Emails, t \in Tokens :
        /\ validate_email(e)
        /\ <<e, t>> \in confirmation_emails
        /\ subscriptions[e] = "confirmed"
        /\ \E f \in Emails : subscriptions[f] = "pending_confirmation"
        /\ answer = Unauthorized(c)

\* The answer of subscribe when the confirmation email could not be sent.
EmailNotSent(c) ==
    <<[client |-> c, route |-> "POST /subscriptions", flash |-> "",
       response |-> HttpResponse(500, <<>>,
           "Failed to send confirmation email for the new subscriber")]>>

\* C40: subscribe reaches the mailer only after its transaction is
\* committed: while a call is at send_confirmation_email its subscriber is
\* stored, pending or already confirmed, with the token of the call; when
\* the mailer fails the call is answered 500 and no row of subscriptions or
\* subscription_token changes.
C40_SubscriberStoredBeforeEmail ==
    [][\A c \in Clients :
          (subscribing[c] # <<>> /\ subscribing[c][1].pc = "send_confirmation_email")
          => /\ Stored(subscribing[c][1].email)
             /\ [subscription_token |-> subscribing[c][1].subscription_token,
                 subscriber_id |-> subscribing[c][1].email] \in subscription_token
             /\ (send_confirmation_email(c) /\ confirmation_emails' = confirmation_emails)
                => /\ answer' = EmailNotSent(c)
                   /\ answer'[1].response.status \in 500..599
                   /\ subscriptions' = subscriptions
                   /\ subscription_token' = subscription_token]_vars

\* C40 witness: a call of subscribe was answered 500 for the email, no
\* confirmation email went out, and the subscriber is stored as pending
\* with a token.
C40_Witness ==
    \E c \in Clients, e \in Emails :
        /\ answer = EmailNotSent(c)
        /\ validate_email(e)
        /\ subscriptions[e] = "pending_confirmation"
        /\ \E row \in subscription_token : row.subscriber_id = e
        /\ \A t \in Tokens : <<e, t>> \notin confirmation_emails

\* C32: in every state a publish call that obtained StartProcessing and
\* has its 303 has a committed idempotency row for its pair that holds this
\* response, and its transaction is closed; the step in which the UPDATE or
\* the commit of save_response fails answers 500, closes the transaction and
\* leaves no row of the pair in the store.
C32_AnsweredOnlyAfterCommit ==
    [][\A r \in Requests :
          /\ (/\ next_action'[r] = "StartProcessing"
              /\ response'[r] # <<>>
              /\ response'[r][1].status = 303)
             => /\ transaction'[r] = <<>>
                /\ \E row \in rows_for(idempotency', form'[r].user_id, form'[r].idempotency_key) :
                     /\ row.response_status_code = <<303>>
                     /\ row.response_headers = <<header_records(response'[r][1].headers)>>
                     /\ row.response_body = <<response'[r][1].body>>
          /\ (pc[r] = "save_response" /\ pc'[r] = "done" /\ response'[r][1].status # 303)
             => /\ response'[r][1].status \in 500..599
                /\ transaction'[r] = <<>>
                /\ rows_for(idempotency', form[r].user_id, form[r].idempotency_key) = {}]_vars

\* C32 witness: one call has its 303 and its committed row, and another
\* call, for another pair, went through all its subscribers and then failed
\* in save_response: it has a 500 and no row.
C32_Witness ==
    \E r, q \in Requests :
        /\ Completed(r, PairOf(r))
        /\ Captured(PairOf(r)) # {}
        /\ PairOf(q) # PairOf(r)
        /\ pc[q] = "done"
        /\ next_action[q] = "StartProcessing"
        /\ subscribers[q] # {}
        /\ todo[q] = {}
        /\ response[q] = <<e500("StoreError")>>
        /\ rows_for(idempotency, form[q].user_id, form[q].idempotency_key) = {}

\* ---- save_response and get_saved_response over any response ----------------

HeaderNames == {"location", "set-cookie"}

HeaderValues == {"a", "b"}

\* The lists of headers of a response: the values of one name stand
\* together, as in the iteration of a HeaderMap.
HeaderLists ==
    {h \in UNION {[1..n -> HeaderNames \X HeaderValues] : n \in 0..MaxHeaders} :
        \A i, j, k \in 1..Len(h) : (i < j /\ j < k /\ h[i][1] = h[k][1]) => h[j][1] = h[i][1]}

\* The responses handed to save_response.
Responses ==
    {HttpResponse(status, h, body) : status \in {200, 303}, h \in HeaderLists,
                                     body \in {"", "body"}}

\* save_response called with any response, by the first request of a run,
\* which obtained StartProcessing: the row is updated and committed, and the
\* caller gets `response_head.set_body(body)`, the head and the bytes of
\* the response it passed.
save_response_of(r, user_id, idempotency_key, http_response) ==
    /\ \A q \in Requests : pc[q] = "idle" /\ r <= q
    /\ rows_for(idempotency, user_id, idempotency_key) = {}
    /\ form' = [form EXCEPT ![r] = [user_id |-> user_id, idempotency_key |-> idempotency_key,
                                    content |-> 1]]
    /\ idempotency' = idempotency \cup
                        {updated_row(placeholder(user_id, idempotency_key), http_response)}
    /\ response' = [response EXCEPT
           ![r] = <<HttpResponse(http_response.status, http_response.headers,
                                 http_response.body)>>]
    /\ next_action' = [next_action EXCEPT ![r] = "StartProcessing"]
    /\ pc' = [pc EXCEPT ![r] = "done"]
    /\ in_flight' = [in_flight EXCEPT ![r] = {q \in Requests : pc[q] \notin {"idle", "done"}}]
    /\ UNCHANGED <<adminVars, subscriptions, newsletter_issues, issue_delivery_queue,
                   transaction, subscribers, todo, handler_calls, workerVars>>

\* Responses of any kind are saved, and publish calls meet their rows.
RoundTripNext ==
    \/ \E r \in Requests, u \in Users, k \in Keys, http_response \in Responses :
         save_response_of(r, u, k, http_response)
    \/ \E r \in Requests : Submit(r)
    \/ \E r \in Requests : try_processing(r)
    \/ \E r \in Requests : get_saved_response(r)
    \/ \E r \in Requests : get_confirmed_subscribers(r)
    \/ \E r \in Requests : save_response(r)

RoundTripSpec == StartWith({}) /\ [][RoundTripNext]_vars

\* The values a list of headers has for a name, in their order.
values_of(headers, name) ==
    LET of_name == SelectSeq(headers, LAMBDA h : h[1] = name)
    IN [i \in 1..Len(of_name) |-> of_name[i][2]]

\* Two responses with the same status, the same values in the same order
\* for every header name, and the same body.
SameResponse(a, b) ==
    /\ a.status = b.status
    /\ Len(a.headers) = Len(b.headers)
    /\ \A i \in 1..Len(a.headers) :
         values_of(a.headers, a.headers[i][1]) = values_of(b.headers, a.headers[i][1])
    /\ a.body = b.body

\* C33: a call that meets the row another call saved for its pair gets the
\* saved response back, never an error, and that response has the status,
\* for every header name the values in their order, and the body of the
\* response save_response returned to the call that saved it.
C33_SavedResponseReadsBackTheSame ==
    \A r, q \in Requests :
        (/\ r # q
         /\ pc[r] = "done" /\ pc[q] = "done"
         /\ next_action[r] = "StartProcessing"
         /\ response[r] # <<>>
         /\ rows_for(idempotency, form[r].user_id, form[r].idempotency_key) # {}
         /\ PairOf(q) = PairOf(r)
         /\ next_action[q] # "none")
        => /\ next_action[q] = "ReturnSavedResponse"
           /\ response[q] # <<>>
           /\ SameResponse(response[q][1], response[r][1])

\* C33 witness: a response with two values for one header name and a value
\* for another was saved, and a later call for the same pair read it back.
C33_Witness ==
    \E r, q \in Requests :
        /\ r # q
        /\ pc[r] = "done" /\ pc[q] = "done"
        /\ next_action[r] = "StartProcessing"
        /\ next_action[q] = "ReturnSavedResponse"
        /\ PairOf(q) = PairOf(r)
        /\ response[r] # <<>>
        /\ Len(response[r][1].headers) = 3
        /\ \E name \in HeaderNames : Len(values_of(response[r][1].headers, name)) = 2
        /\ response[r][1].headers[1][2] # response[r][1].headers[2][2]
        /\ response[q] # <<>>
        /\ SameResponse(response[q][1], response[r][1])

\* C34: the step in which a worker's iteration returns TaskCompleted takes
\* out of the queue the row the worker has held since its claim, and nothing
\* else: every other row stays, the issues and the idempotency rows are as
\* before, and the rows other workers hold are still theirs; between the
\* claim and that step the worker changes neither the queue, the issues nor
\* the idempotency rows.
C34_CompletedIterationRemovesItsRowOnly ==
    [][\A w \in Workers :
          /\ (outcome'[w] = "TaskCompleted" /\ task[w] # <<>> /\ task'[w] = <<>>)
             => /\ task[w][1] \in issue_delivery_queue
                /\ issue_delivery_queue' = issue_delivery_queue \ {task[w][1]}
                /\ UNCHANGED <<newsletter_issues, idempotency>>
                /\ \A v \in Workers \ {w} : task'[v] = task[v]
          /\ (task[w] # <<>> /\ task'[w] = task[w] /\ wpc'[w] # wpc[w])
             => UNCHANGED <<issue_delivery_queue, newsletter_issues, idempotency>>]_vars

\* C34 witness: a worker has completed one row of an issue while another
\* worker still holds another row of the same issue, which is in the queue.
C34_Witness ==
    \E w, v \in Workers, c \in completed :
        /\ w # v
        /\ outcome[w] = "TaskCompleted"
        /\ wpc[w] = "match"
        /\ task[v] # <<>>
        /\ task[v][1] \in issue_delivery_queue
        /\ task[v][1].newsletter_issue_id = c.row.newsletter_issue_id
        /\ c.row \notin issue_delivery_queue

\* C35: a worker is in the ten-second sleep only after an iteration that
\* returned EmptyQueue and in the one-second sleep only after one that
\* returned an error, and it enters a sleep only from the match on that
\* result; after TaskCompleted its next step is the next claim, which it can
\* take at once, so between two rows it completes in a row there is no
\* sleep.
C35_SleepOnlyAfterEmptyQueueOrError ==
    [][\A w \in Workers :
          /\ wpc'[w] = "sleep_10" => outcome'[w] = "EmptyQueue"
          /\ wpc'[w] = "sleep_1" => outcome'[w] \notin {"EmptyQueue", "TaskCompleted", "none"}
          /\ (wpc'[w] \in {"sleep_10", "sleep_1"} /\ wpc[w] # wpc'[w]) => wpc[w] = "match"
          /\ (wpc[w] = "match" /\ outcome[w] = "TaskCompleted" /\ wpc'[w] # wpc[w])
             => /\ wpc'[w] = "idle"
                /\ (ENABLED dequeue_task(w))'
          /\ (wpc[w] = "match" /\ outcome[w] = "EmptyQueue" /\ wpc'[w] # wpc[w])
             => wpc'[w] = "sleep_10"]_vars

\* C35 witness: a worker that completed a row stands at its next claim with
\* a row to claim, while another worker sleeps the short interval after an
\* error.
C35_Witness ==
    \E w, v \in Workers :
        /\ w # v
        /\ wpc[w] = "idle"
        /\ outcome[w] = "TaskCompleted"
        /\ claimable(w) # {}
        /\ wpc[v] = "sleep_1"

\* Two completed publish calls of different users that carried the same
\* idempotency key were both processed as new requests, and each user has a
\* row of its own with the captured response.
ScopedByUser ==
    \A r, q \in Requests :
        (/\ r # q
         /\ form[r].user_id # form[q].user_id
         /\ form[r].idempotency_key = form[q].idempotency_key
         /\ pc[r] = "done" /\ pc[q] = "done"
         /\ response[r] # <<>> /\ response[r][1].status = 303
         /\ response[q] # <<>> /\ response[q][1].status = 303)
        => /\ next_action[r] = "StartProcessing"
           /\ next_action[q] = "StartProcessing"
           /\ Captured(PairOf(r)) # {}
           /\ Captured(PairOf(q)) # {}
           /\ Captured(PairOf(r)) \cap Captured(PairOf(q)) = {}

\* C36: when two different users have published with the same idempotency
\* key, each call was processed as a new request with a record of its own,
\* and each has an Issue of its own, so two Issues exist.
C36_EachUserOwnRecordAndIssue ==
    /\ ScopedByUser
    /\ \A r, q \in Requests :
          (/\ r # q
           /\ form[r].user_id # form[q].user_id
           /\ form[r].idempotency_key = form[q].idempotency_key
           /\ Completed(r, PairOf(r))
           /\ Completed(q, PairOf(q)))
          => Cardinality(IssuesCreated) = 2

\* C37: when a publish call that obtained StartProcessing has ended with a
\* 500 after the mailer took the issue for a subscriber, and a later call
\* with the same pair has completed with the 303, that subscriber has got
\* one mailer call for the pair and no more.
C37_RetryDoesNotSendAgain ==
    \A r, q \in Requests, e \in Emails :
        (/\ r # q
         /\ PairOf(r) = PairOf(q)
         /\ pc[r] = "done"
         /\ next_action[r] = "StartProcessing"
         /\ response[r] # <<>> /\ response[r][1].status = 500
         /\ validate_email(e)
         /\ e \in subscribers[r] \ todo[r]
         /\ r \notin in_flight[q]
         /\ Completed(q, PairOf(r)))
        => handler_calls[<<PairOf(r), e>>] <= 1

\* C38: every committed idempotency row has its status code, its headers
\* and its body set, and no call of get_saved_response has met a NULL
\* column.
C38_NoCommittedRecordWithoutResponse ==
    /\ \A row \in idempotency :
          /\ row.response_status_code # <<>>
          /\ row.response_headers # <<>>
          /\ row.response_body # <<>>
    /\ \A r \in Requests : next_action[r] # "panic"

\* C38 witness: a call that arrived while another call of its pair held the
\* transaction of StartProcessing has read the committed row and returned
\* the saved response.
C38_Witness ==
    \E r, q \in Requests :
        /\ q \in in_flight[r]
        /\ Completed(q, PairOf(r))
        /\ pc[r] = "done"
        /\ next_action[r] = "ReturnSavedResponse"
        /\ response[r] = response[q]
        /\ Captured(PairOf(r)) = rows_for(idempotency, form[r].user_id, form[r].idempotency_key)

\* Some call of pair p obtained StartProcessing and was answered with a 500.
FailedAttempt(p) ==
    \E r \in Requests :
        /\ pc[r] = "done"
        /\ PairOf(r) = p
        /\ next_action[r] = "StartProcessing"
        /\ response[r] # <<>>
        /\ response[r][1].status = 500

\* C39: when the attempts of a pair that obtained StartProcessing have
\* failed and none has completed, the pair has no committed row, and the
\* INSERT of a later call with the pair, when the store answers it, obtains
\* StartProcessing with a new placeholder and goes on to fetch the
\* subscribers; no call is answered with the error of a missing saved
\* response.
C39_RetryAfterFailureStartsAgain ==
    [][/\ \A q \in Requests :
            (/\ FailedAttempt(PairOf(q))
             /\ ~\E r \in Requests : Completed(r, PairOf(q))
             /\ pc[q] = "try_processing"
             /\ pc'[q] # pc[q]
             /\ next_action'[q] # "Err")
            => /\ rows_for(idempotency, form[q].user_id, form[q].idempotency_key) = {}
               /\ next_action'[q] = "StartProcessing"
               /\ pc'[q] = "get_confirmed_subscribers"
               /\ transaction'[q] = <<placeholder(form[q].user_id, form[q].idempotency_key)>>
       /\ \A q \in Requests :
            response'[q] # <<e500("We expected a saved response but didn't find it")>>]_vars

\* C39 witness: a call failed on the mailer after StartProcessing, and a
\* call that arrived afterwards with the same pair obtained StartProcessing
\* too and has reached save_response, while the pair has no committed row.
C39_Witness ==
    \E r, q \in Requests :
        /\ r # q
        /\ PairOf(r) = PairOf(q)
        /\ pc[r] = "done"
        /\ next_action[r] = "StartProcessing"
        /\ response[r] # <<>>
        /\ response[r][1].status = 500
        /\ response[r] # <<e500("StoreError")>>
        /\ r \notin in_flight[q]
        /\ next_action[q] = "StartProcessing"
        /\ pc[q] = "save_response"
        /\ idempotency = {}

====
